---- MODULE Spec2Model ----
(***************************************************************************)
(* MedusaXD image bot: the image generation client (infip_provider.py),   *)
(* the permission gate and the rate limiter (main.py, commands.py,        *)
(* database.py) as state machines.                                        *)
(***************************************************************************)
EXTENDS Integers, Sequences, FiniteSets, TLC

VARIABLES
    g_pc,        \* position of one generate_images call: "idle", "retry", "done"
    g_args,      \* the arguments of the call
    g_payload,   \* the payload built at infip_provider.py:305-317
    g_attempt,   \* loop variable `attempt` of _make_request_with_retry
    g_requests,  \* number of session.post calls issued by the call
    g_outcomes,  \* what the transport answered to each request, in order
    g_slept,     \* seconds slept since the last request was issued
    g_waits,     \* g_waits[k]: seconds slept between request k-1 and request k
    g_result,    \* what the call returned or raised
    db_status,   \* bot_settings document "bot_status": "none", "enabled", "disabled"
    db_users,    \* user ids with a document in the users collection
    db_bans,     \* user ids with a document in the bans collection
    db_rate,     \* the rate_limits collection: documents [user_id, timestamp]
    now,         \* datetime.utcnow(), in minutes
    rl_last,     \* the last direct call of check_rate_limit and what it returned
    h_pc,        \* per handler invocation: the await it is at
    h_user,      \* its user_id
    h_variant,   \* "main": main._handle_generation, "commands": commands.generate_command
    h_text,      \* the text after the command word
    h_saw,       \* what the permission lookups returned to it
    h_dberr,     \* the storage calls of it that logged "Failed to ..."
    h_msgs,      \* the messages it sent to the user, in order
    h_verb,      \* the command word that was dispatched to it
    h_flags,     \* the "-x..." tokens typed between the command word and the prompt
    h_audit,     \* what its log_user_action calls did, in order
    h_probe,     \* what its test_connection request gave: "none", "ok", "failed"
    h_sent,      \* what became of each image it tried to deliver, in order
    h_placeholder, \* what was done with its processing message, in order
    db_incs,     \* per user id, total_generations of the user's document (0 without one)
    db_logs,     \* the logs collection: the documents of log_generation, in order
    db_admins,   \* user ids with a document in the admins collection
    db_meta,     \* per user id, authorized_at and added_by of the user's document
    a_last,      \* the last admin command or panel callback and what it did
    lq,          \* BotLogger.failed_messages
    lr_snap,     \* the retry task: what is left of the copy it iterates over
    lr_pos       \* the place in failed_messages of the first entry of lr_snap

gvars == <<g_pc, g_args, g_payload, g_attempt, g_requests, g_outcomes,
           g_slept, g_waits, g_result>>

dbvars == <<db_status, db_users, db_bans, db_rate, now, rl_last>>

hvars == <<h_pc, h_user, h_variant, h_text, h_saw, h_dberr, h_msgs>>

hxvars == <<h_verb, h_flags, h_audit, h_probe, h_sent, h_placeholder>>

logvars == <<db_incs, db_logs>>

advars == <<db_admins, a_last, db_meta>>

lqvars == <<lq, lr_snap, lr_pos>>

auxvars == <<advars, lqvars>>

vars == <<gvars, dbvars, hvars, hxvars, logvars, auxvars>>

Range(f) == {f[k] : k \in DOMAIN f}

Min(a, b) == IF a < b THEN a ELSE b

RECURSIVE Pow2(_)
Pow2(n) == IF n = 0 THEN 1 ELSE 2 * Pow2(n - 1)

(***************************************************************************)
(* Tables of MedusaXDImageGenerator                                        *)
(***************************************************************************)
AVAILABLE_MODELS == {"flux", "turbo", "gptimage"}

ASPECT_RATIOS ==
    [landscape |-> "16:9", portrait |-> "9:16", square |-> "1:1",
     photo |-> "4:3", classic |-> "3:2", wide |-> "21:9",
     golden |-> "1.618:1", cinema |-> "2.35:1", poster |-> "3:4",
     instagram |-> "1:1", story |-> "9:16", cover |-> "16:9",
     twitter |-> "16:9", a4 |-> "297:210", letter |-> "11:8.5",
     imax |-> "1.43:1", ultrawide |-> "32:9"]

SIZE_MAPPING ==
    [landscape |-> "1344x768", portrait |-> "768x1344", square |-> "1024x1024",
     photo |-> "1024x768", classic |-> "1024x683", wide |-> "1344x576",
     golden |-> "1024x633", cinema |-> "1344x572", poster |-> "768x1024",
     instagram |-> "1024x1024", story |-> "768x1344", cover |-> "1344x768",
     twitter |-> "1344x768", a4 |-> "1024x727", letter |-> "1024x791",
     imax |-> "1024x716", ultrawide |-> "1344x384"]

STYLE_MAPPING ==
    [realistic |-> "realistic", photographic |-> "photographic",
     artistic |-> "artistic", anime |-> "anime", cartoon |-> "cartoon",
     cinematic |-> "cinematic", fantasy |-> "fantasy",
     cyberpunk |-> "cyberpunk", oil_painting |-> "oil painting",
     watercolor |-> "watercolor", sketch |-> "sketch",
     digital_art |-> "digital art"]

\* dict.get(key, default)
DictGet(d, key, default) == IF key \in DOMAIN d THEN d[key] ELSE default

(***************************************************************************)
(* Strings.  A prompt is the string  " "^lead . "x"^body . " "^trail  :    *)
(* `lead` blanks, `body` non-blank characters, `trail` blanks.             *)
(***************************************************************************)
StrLen(s) == s.lead + s.body + s.trail

\* str.lstrip() in the place of strip(): trailing whitespace kept
StripLeftOnly(s) == [lead |-> 0, body |-> s.body, trail |-> s.trail]

\* str.strip(): leading and trailing whitespace removed
Strip(s) == [lead |-> 0, body |-> s.body, trail |-> 0]

\* s[:n]
Prefix(s, n) ==
    [lead  |-> Min(s.lead, n),
     body  |-> Min(s.body, n - Min(s.lead, n)),
     trail |-> Min(s.trail, n - Min(s.lead, n) - Min(s.body, n - Min(s.lead, n)))]

MinPromptLen == 3
MaxPromptLen == 2000
MinImages == 1
MaxImages == 4
MaxSeed == 2147483647

NoSeed == [none |-> TRUE]
NoPayload == [none |-> TRUE]
NoArgs == [none |-> TRUE]
NoResult == [kind |-> "none", msg |-> "", images |-> <<>>]

(***************************************************************************)
(* generate_images, pre-flight validation and payload construction         *)
(***************************************************************************)
\* "" when the arguments pass validation, else the ValueError raised
ValidationError(args) ==
    IF args.model \notin AVAILABLE_MODELS THEN "Model not supported"
    ELSE IF args.num_images < MinImages \/ args.num_images > MaxImages
         THEN "Number of images must be between 1 and 4"
    ELSE IF StrLen(Strip(args.prompt)) < MinPromptLen
         THEN "Prompt must be at least 3 characters long"
    ELSE ""

\* the aspect ratio after the fallback of lines 280-282
EffectiveAspect(aspect_ratio) ==
    IF aspect_ratio \notin DOMAIN ASPECT_RATIOS THEN "landscape" ELSE aspect_ratio

\* the prompt stripped and left at its length
CleanPromptUntruncated(prompt) == Strip(prompt)

\* the prompt after strip and truncation, lines 285-291
CleanPrompt(prompt) ==
    IF StrLen(Strip(prompt)) > MaxPromptLen
    THEN Prefix(Strip(prompt), MaxPromptLen)
    ELSE Strip(prompt)

\* the payload with the style passed through instead of looked up
BuildPayloadRawStyle(args, rnd) ==
    [prompt |-> CleanPrompt(args.prompt),
     model |-> args.model,
     n |-> args.num_images,
     size |-> DictGet(SIZE_MAPPING, EffectiveAspect(args.aspect_ratio), "1344x768"),
     response_format |-> "url",
     user |-> "medusaxd-bot",
     style |-> args.style,
     aspect_ratio |-> ASPECT_RATIOS[EffectiveAspect(args.aspect_ratio)],
     timeout |-> args.timeout,
     image_format |-> "png",
     seed |-> IF args.seed = NoSeed THEN rnd ELSE args.seed.v]

\* the payload of lines 293-317; rnd is the value random.randint(1, 2^31-1) yields
BuildPayload(args, rnd) ==
    [prompt |-> CleanPrompt(args.prompt),
     model |-> args.model,
     n |-> args.num_images,
     size |-> DictGet(SIZE_MAPPING, EffectiveAspect(args.aspect_ratio), "1344x768"),
     response_format |-> "url",
     user |-> "medusaxd-bot",
     style |-> DictGet(STYLE_MAPPING, args.style, "realistic"),
     aspect_ratio |-> ASPECT_RATIOS[EffectiveAspect(args.aspect_ratio)],
     timeout |-> args.timeout,
     image_format |-> "png",
     seed |-> IF args.seed = NoSeed THEN rnd ELSE args.seed.v]

(***************************************************************************)
(* The transport.  An outcome is what session.post does for one request:  *)
(* it raises Timeout, ConnectionError or another exception, or it returns *)
(* a response with a status and a body.                                    *)
(***************************************************************************)
MaxData == 2

Entries ==
    {[is_dict |-> TRUE, has_url |-> TRUE, url |-> "u"],      \* {"url": "https://..."}
     [is_dict |-> TRUE, has_url |-> TRUE, url |-> ""],       \* {"url": ""}
     [is_dict |-> TRUE, has_url |-> FALSE, url |-> ""],      \* {}
     [is_dict |-> FALSE, has_url |-> FALSE, url |-> ""]}     \* null, or a number

DataSeqs == UNION {[1..n -> Entries] : n \in 0..MaxData}

NotJson == [kind |-> "not_json", has_data |-> FALSE, data |-> <<>>, error |-> "absent"]
\* a JSON value that is falsy in Python: {}, null, [], 0
Falsy == [kind |-> "falsy", has_data |-> FALSE, data |-> <<>>, error |-> "absent"]
\* a non-empty JSON object; error: the shape of its "error" field
Obj(has_data, data, error) ==
    [kind |-> "object", has_data |-> has_data, data |-> data, error |-> error]

Bodies200 ==
    {NotJson, Falsy, Obj(FALSE, <<>>, "absent")}
        \cup {Obj(TRUE, d, "absent") : d \in DataSeqs}

ErrorShapes == {"absent", "dict_with_message", "dict_without_message", "not_a_dict"}

Bodies400 == {NotJson} \cup {Obj(FALSE, <<>>, e) : e \in ErrorShapes}

ErrorStatuses == {400, 401, 403, 404, 429, 500, 503}

Timeout == [kind |-> "timeout", status |-> 0, body |-> NotJson]
ConnectionError == [kind |-> "connection_error", status |-> 0, body |-> NotJson]
OtherException == [kind |-> "exception", status |-> 0, body |-> NotJson]
Response(status, body) == [kind |-> "response", status |-> status, body |-> body]

OkResponses == {Response(200, b) : b \in Bodies200}

ErrorResponses ==
    {Response(400, b) : b \in Bodies400}
        \cup {Response(s, NotJson) : s \in ErrorStatuses \ {400}}

(***************************************************************************)
(* _sync_request and the classification of its result                      *)
(***************************************************************************)
\* Response.raise_for_status(): HTTPError for 400 <= status < 600
RaisesForStatus(status) == 400 <= status /\ status < 600

\* what _sync_request does with the transport's outcome: the exception class
\* it lets through, or "return" with the parsed JSON body
SyncRequest(o) ==
    CASE o.kind = "timeout" -> "Timeout"
      [] o.kind = "connection_error" -> "ConnectionError"
      [] o.kind = "exception" -> "Exception"
      [] o.kind = "response" /\ RaisesForStatus(o.status) -> "HTTPError"
      [] o.kind = "response" /\ ~RaisesForStatus(o.status) /\ o.body.kind = "not_json"
            -> "Exception"          \* response.json() raises JSONDecodeError
      [] OTHER -> "return"

\* the test `e.response is not None` in the place of `e.response`
ResponseNotNone(o) == TRUE

\* bool(e.response) for the response carried by the HTTPError of
\* raise_for_status: requests defines Response.__bool__ as Response.ok, which is
\* False exactly when raise_for_status() raises
ResponseTruthy(o) == ~RaisesForStatus(o.status)

\* line 183: status_code = e.response.status_code if e.response else 0
StatusCode(o) == IF ResponseTruthy(o) THEN o.status ELSE 0

max_retries == 3
BackoffCap == 10
BackoffJitterMax == 1
RateLimitSleep == 30
RateLimitJitterMax == 10

LastAttempt(attempt) == attempt = max_retries - 1

Return == [next |-> "return", exc |-> "", msg |-> "", sleep |-> 0]
Raise(exc, msg) == [next |-> "raise", exc |-> exc, msg |-> msg, sleep |-> 0]
Continue(sleep) == [next |-> "continue", exc |-> "", msg |-> "", sleep |-> sleep]

\* line 150: min(2 ** attempt + random.uniform(0, 1), 10)
BackoffDelay(attempt, jitter) == Min(Pow2(attempt) + jitter, BackoffCap)

\* the sleep taken before the first request too
BackoffBeforeAlways(attempt, jitter) == BackoffDelay(attempt, jitter)

\* lines 149-152: the sleep at the top of an iteration
BackoffBefore(attempt, jitter) == IF attempt > 0 THEN BackoffDelay(attempt, jitter) ELSE 0

\* lines 161-168: response and "data" in response and response["data"]
UsableResponse(body) == body.kind = "object" /\ body.has_data /\ body.data # <<>>

\* an unusable body handed back to the caller when the attempts are used up
OnResponseAcceptLast(body, attempt) ==
    IF UsableResponse(body) \/ LastAttempt(attempt) THEN Return ELSE Continue(0)

OnResponse(body, attempt) ==
    IF UsableResponse(body) THEN Return
    ELSE IF LastAttempt(attempt) THEN Raise("RuntimeError", "API returned empty response")
    ELSE Continue(0)

\* the timeout handler giving up one attempt early
OnTimeoutGiveUpEarly(attempt) ==
    IF attempt = max_retries - 2
    THEN Raise("RuntimeError", "Request timed out after maximum retries")
    ELSE Continue(0)

\* lines 170-174
OnTimeout(attempt) ==
    IF LastAttempt(attempt)
    THEN Raise("RuntimeError", "Request timed out after maximum retries")
    ELSE Continue(0)

\* lines 176-180
OnConnectionError(attempt) ==
    IF LastAttempt(attempt)
    THEN Raise("RuntimeError", "Failed to connect to image generation service")
    ELSE Continue(0)

\* lines 185-193: the 400 branch.  json() of a non-JSON body raises ValueError,
\* caught at 192; the ValueError of line 191 is caught at 192 too; .get on an
\* "error" that is no dict raises AttributeError, which is not caught; a body
\* without "error" raises nothing, and control leaves the except clause and
\* reaches the end of the loop body
OnBadRequest(body) ==
    CASE body.kind = "not_json" ->
            Raise("ValueError", "Invalid request parameters - check your prompt and options")
      [] body.kind = "object" /\ body.error \in {"dict_with_message", "dict_without_message"} ->
            Raise("ValueError", "Invalid request parameters - check your prompt and options")
      [] body.kind = "object" /\ body.error = "not_a_dict" ->
            Raise("AttributeError", "object has no attribute get")
      [] OTHER -> Continue(0)

\* lines 182-216
OnHTTPError(o, attempt, rl_jitter) ==
    LET status_code == StatusCode(o) IN
    IF status_code = 400 THEN OnBadRequest(o.body)
    ELSE IF status_code = 401 THEN Raise("RuntimeError", "API authentication failed")
    ELSE IF status_code = 403
         THEN Raise("RuntimeError", "API access forbidden - check permissions")
    ELSE IF status_code = 429
         THEN IF attempt < max_retries - 1
              THEN Continue(RateLimitSleep + rl_jitter)
              ELSE Raise("RuntimeError", "Rate limit exceeded - please try again later")
    ELSE IF status_code >= 500
         THEN IF LastAttempt(attempt)
              THEN Raise("RuntimeError", "Server error - service temporarily unavailable")
              ELSE Continue(0)
    ELSE Raise("RuntimeError", "HTTP error")

\* the catch-all handler raising at once
OnExceptionRaiseNow(attempt) == Raise("RuntimeError", "Unexpected error")

\* lines 218-222
OnException(attempt) ==
    IF LastAttempt(attempt) THEN Raise("RuntimeError", "Unexpected error") ELSE Continue(0)

\* one iteration of the loop of _make_request_with_retry on outcome o
Iteration(o, attempt, rl_jitter) ==
    LET r == SyncRequest(o) IN
    CASE r = "return" -> OnResponse(o.body, attempt)
      [] r = "Timeout" -> OnTimeout(attempt)
      [] r = "ConnectionError" -> OnConnectionError(attempt)
      [] r = "HTTPError" -> OnHTTPError(o, attempt, rl_jitter)
      [] OTHER -> OnException(attempt)

(***************************************************************************)
(* generate_images, after the retry loop                                   *)
(***************************************************************************)
\* lines 329-334: the entries with a non-empty url
ValidImages(data) == SelectSeq(data, LAMBDA item : item.has_url /\ item.url # "")

\* the exception let through as it is
WrapErrorPassThrough(exc, msg) == [kind |-> exc, msg |-> msg, images |-> <<>>]

\* lines 342-352: ValueError and RuntimeError are re-raised, anything else
\* becomes RuntimeError
WrapError(exc, msg) ==
    IF exc \in {"ValueError", "RuntimeError"}
    THEN [kind |-> exc, msg |-> msg, images |-> <<>>]
    ELSE [kind |-> "RuntimeError", msg |-> "Failed to generate image", images |-> <<>>]

\* lines 328-340, inside the try of line 319: `"url" in item` raises TypeError
\* on an item that is no container, and the loop visits every item before the
\* check of line 336
ProcessResponse(body) ==
    IF \E i \in DOMAIN body.data : ~body.data[i].is_dict
    THEN WrapError("TypeError", "argument of type is not iterable")
    ELSE IF ValidImages(body.data) = <<>>
    THEN [kind |-> "RuntimeError", msg |-> "No valid images in API response", images |-> <<>>]
    ELSE [kind |-> "ImageResponse", msg |-> "", images |-> ValidImages(body.data)]

(***************************************************************************)
(* One call of generate_images                                             *)
(***************************************************************************)
GenInit ==
    /\ g_pc = "idle"
    /\ g_args = NoArgs
    /\ g_payload = NoPayload
    /\ g_attempt = 0
    /\ g_requests = 0
    /\ g_outcomes = <<>>
    /\ g_slept = 0
    /\ g_waits = <<>>
    /\ g_result = NoResult

\* lines 273-317: validation, then the payload; no request is made here
GenCall(args, rnd) ==
    /\ g_pc = "idle"
    /\ g_args' = args
    /\ IF ValidationError(args) # ""
       THEN /\ g_pc' = "done"
            /\ g_result' = [kind |-> "ValueError", msg |-> ValidationError(args),
                            images |-> <<>>]
            /\ g_payload' = g_payload
       ELSE /\ g_pc' = "retry"
            /\ g_result' = g_result
            /\ g_payload' = BuildPayload(args, rnd)
    /\ UNCHANGED <<g_attempt, g_requests, g_outcomes, g_slept, g_waits>>
    /\ UNCHANGED <<dbvars, hvars, hxvars, logvars, auxvars>>

\* lines 144-224 for one value of `attempt`, and, when the loop is left, the
\* rest of generate_images (lines 326-352): the backoff sleep, one
\* session.post answered by outcome o, and the handling of what it gave
Attempt(o, jitter, rl_jitter) ==
    /\ g_pc = "retry"
    /\ LET d == Iteration(o, g_attempt, rl_jitter) IN
        /\ g_requests' = g_requests + 1
        /\ g_outcomes' = Append(g_outcomes, o)
        /\ g_waits' = Append(g_waits, g_slept + BackoffBefore(g_attempt, jitter))
        /\ g_slept' = d.sleep
        /\ CASE d.next = "return" ->
                    /\ g_pc' = "done"
                    /\ g_attempt' = g_attempt
                    /\ g_result' = ProcessResponse(o.body)
             [] d.next = "raise" ->
                    /\ g_pc' = "done"
                    /\ g_attempt' = g_attempt
                    /\ g_result' = WrapError(d.exc, d.msg)
             [] OTHER ->
                    /\ g_attempt' = g_attempt + 1
                    /\ IF g_attempt + 1 < max_retries
                       THEN g_pc' = "retry" /\ g_result' = g_result
                       ELSE /\ g_pc' = "done"   \* line 224
                            /\ g_result' = WrapError("RuntimeError",
                                   "Failed to generate image after maximum retries")
    /\ UNCHANGED <<g_args, g_payload>>
    /\ UNCHANGED <<dbvars, hvars, hxvars, logvars, auxvars>>

BackoffJitters == {0, BackoffJitterMax}
RateLimitJitters == {0, RateLimitJitterMax}
SeedSamples == {1, MaxSeed}

AttemptTimeout == g_pc = "retry" /\ \E j \in BackoffJitters : Attempt(Timeout, j, 0)

AttemptConnectionError == g_pc = "retry" /\ \E j \in BackoffJitters : Attempt(ConnectionError, j, 0)

AttemptException == g_pc = "retry" /\ \E j \in BackoffJitters : Attempt(OtherException, j, 0)

AttemptResponse == g_pc = "retry" /\ \E o \in OkResponses, j \in BackoffJitters : Attempt(o, j, 0)

AttemptHTTPError ==
    g_pc = "retry" /\ \E o \in ErrorResponses, j \in BackoffJitters, rj \in RateLimitJitters :
        Attempt(o, j, rj)

(***************************************************************************)
(* Inputs                                                                  *)
(***************************************************************************)
MaxPad == 1
MaxBody == 4

Prompts == [lead : 0..MaxPad, body : 0..MaxBody, trail : 0..MaxPad]

AllArgs ==
    [prompt : Prompts,
     model : AVAILABLE_MODELS \cup {"img3"},
     num_images : (MinImages - 1)..(MaxImages + 1),
     aspect_ratio : {"landscape", "square", "ultrawide", "IMAGE_ASPECT_RATIO_LANDSCAPE"},
     seed : {NoSeed, [v |-> 42]},
     timeout : {90},
     style : {"realistic", "oil_painting", "digital_art", "vaporwave"}]

\* the calls of the retry specification: the defaults of generate_images, with
\* the model, the count and the prompt varied
FewArgs ==
    {a \in AllArgs : /\ a.aspect_ratio = "landscape"
                     /\ a.style = "realistic"
                     /\ a.seed = NoSeed
                     /\ a.model \in {"turbo", "img3"}
                     /\ a.num_images \in {1, MaxImages + 1}
                     /\ a.prompt.lead = 0 /\ a.prompt.trail = 0
                     /\ a.prompt.body \in {MinPromptLen - 1, MinPromptLen}}

FewOutcomes ==
    {Timeout, Response(200, Obj(TRUE, <<[is_dict |-> TRUE, has_url |-> TRUE, url |-> "u"]>>, "absent"))}

\* prompts around the maximum length
LongPrompts ==
    [lead : 0..MaxPad, body : (MaxPromptLen - 1)..(MaxPromptLen + MaxPad), trail : 0..MaxPad]

LongArgs ==
    [prompt : LongPrompts,
     model : AVAILABLE_MODELS \cup {"img3"},
     num_images : {MinImages, MaxImages + 1},
     aspect_ratio : {"landscape"},
     seed : {NoSeed},
     timeout : {90},
     style : {"realistic"}]

GenCallFew == g_pc = "idle" /\ \E a \in FewArgs : GenCall(a, 1)

GenCallAll == g_pc = "idle" /\ \E a \in AllArgs, rnd \in SeedSamples : GenCall(a, rnd)

GenCallLong == g_pc = "idle" /\ \E a \in LongArgs : GenCall(a, 1)

AttemptFew == g_pc = "retry" /\ \E o \in FewOutcomes, j \in BackoffJitters : Attempt(o, j, 0)

(***************************************************************************)
(* Storage (database.py).  Time is in minutes.                             *)
(***************************************************************************)
Users == {1, 2}
TimePoints == {0, 1, 4, 5, 6, 10}
MaxEntries == 3

RATE_LIMIT_MINUTES == 5
MAX_REQUESTS_PER_PERIOD == 2
PurgeMinutes == 60

NoCheck == [called |-> FALSE, user_id |-> 0, limit_minutes |-> 0, max_requests |-> 0,
            ok |-> TRUE, result |-> TRUE]

\* get_bot_status() followed by bot_status.get('enabled', True); ok is FALSE
\* when the query raises
GetBotStatusAlwaysEnabled(ok) == TRUE

GetBotStatus(ok) == IF ok /\ db_status = "disabled" THEN FALSE ELSE TRUE

\* is_user_authorized answering True when find_one raises
IsUserAuthorizedOpenOnError(u, ok) == ~ok \/ u \in db_users

IsUserAuthorized(u, ok) == ok /\ u \in db_users

IsUserBanned(u, ok) == ok /\ u \in db_bans

\* count_documents with "$gt" in the place of "$gte"
CountDocumentsExclusive(rate, u, cutoff) ==
    Cardinality({i \in DOMAIN rate : rate[i].user_id = u /\ rate[i].timestamp > cutoff})

\* count_documents({"user_id": u, "timestamp": {"$gte": cutoff}})
CountDocuments(rate, u, cutoff) ==
    Cardinality({i \in DOMAIN rate : rate[i].user_id = u /\ rate[i].timestamp >= cutoff})

\* check_rate_limit admitting a user who has max_requests entries already
CheckRateLimitOffByOne(rate, u, t, limit_minutes, max_requests, ok) ==
    IF ok THEN CountDocuments(rate, u, t - limit_minutes) <= max_requests ELSE TRUE

\* check_rate_limit at time t
CheckRateLimit(rate, u, t, limit_minutes, max_requests, ok) ==
    IF ok THEN CountDocuments(rate, u, t - limit_minutes) < max_requests ELSE TRUE

InsertOne(rate, u, t) == Append(rate, [user_id |-> u, timestamp |-> t])

\* delete_many({"timestamp": {"$lt": cutoff}})
DeleteOlder(rate, cutoff) == SelectSeq(rate, LAMBDA d : ~(d.timestamp < cutoff))

RecordFaults == {"none", "insert_fails", "purge_fails"}

\* record_request at time t; fault: which of its two storage calls raises
RecordRequest(rate, u, t, fault) ==
    CASE fault = "insert_fails" -> rate
      [] fault = "purge_fails" -> InsertOne(rate, u, t)
      [] OTHER -> DeleteOlder(InsertOne(rate, u, t), t - PurgeMinutes)

DbInit ==
    /\ db_status = "none"
    /\ db_users = {}
    /\ db_bans = {}
    /\ db_rate = <<>>
    /\ now = 0
    /\ rl_last = NoCheck
    /\ db_incs = [u \in Users |-> 0]
    /\ db_logs = <<>>

DbSetBotStatus(enabled) ==
    /\ db_status' = IF enabled THEN "enabled" ELSE "disabled"
    /\ UNCHANGED <<db_users, db_bans, db_rate, now, rl_last, hvars, gvars, hxvars, logvars, auxvars>>

\* the fields of a document of the users collection that a later claim is
\* about; present: there is a document
NoMeta == [authorized_at |-> -1, added_by |-> 0]

NoDoc == [present |-> FALSE, total_generations |-> 0, authorized_at |-> -1, added_by |-> 0]

NewUserDoc(t, added_by) ==
    [present |-> TRUE, total_generations |-> 0, authorized_at |-> t, added_by |-> added_by]

UserDoc(u) ==
    IF u \in db_users
    THEN [present |-> TRUE, total_generations |-> db_incs[u],
          authorized_at |-> db_meta[u].authorized_at, added_by |-> db_meta[u].added_by]
    ELSE NoDoc

\* the users collection becomes docs
StoreUsers(docs) ==
    /\ db_users' = {u \in Users : docs[u].present}
    /\ db_incs' = [u \in Users |-> docs[u].total_generations]
    /\ db_meta' = [u \in Users |->
                      [authorized_at |-> docs[u].authorized_at, added_by |-> docs[u].added_by]]

\* add_authorized_user with "$set" in the place of "$setOnInsert"
AddAuthorizedUserSet(doc, t, added_by) == NewUserDoc(t, added_by)

\* add_authorized_user, database.py:62-82: update_one with "$setOnInsert" and
\* upsert=True writes user_data only when it inserts the document
AddAuthorizedUser(doc, t, added_by) ==
    IF doc.present THEN doc ELSE NewUserDoc(t, added_by)

\* remove_authorized_user, database.py:84-91: delete_one
RemoveAuthorizedUser(doc) == NoDoc

DbAddUser(u) ==
    /\ StoreUsers([v \in Users |-> IF v = u THEN AddAuthorizedUser(UserDoc(v), now, 0)
                                   ELSE UserDoc(v)])
    /\ UNCHANGED <<db_status, db_bans, db_rate, now, rl_last, hvars, gvars, hxvars>>
    /\ UNCHANGED <<db_logs, db_admins, a_last, lqvars>>

DbRemoveUser(u) ==
    /\ StoreUsers([v \in Users |-> IF v = u THEN RemoveAuthorizedUser(UserDoc(v))
                                   ELSE UserDoc(v)])
    /\ UNCHANGED <<db_status, db_bans, db_rate, now, rl_last, hvars, gvars, hxvars>>
    /\ UNCHANGED <<db_logs, db_admins, a_last, lqvars>>

DbBanUser(u) ==
    /\ db_bans' = db_bans \cup {u}
    /\ UNCHANGED <<db_status, db_users, db_rate, now, rl_last, hvars, gvars, hxvars, logvars, auxvars>>

DbUnbanUser(u) ==
    /\ db_bans' = db_bans \ {u}
    /\ UNCHANGED <<db_status, db_users, db_rate, now, rl_last, hvars, gvars, hxvars, logvars, auxvars>>

\* the clock moves on to a later instant
Tick ==
    /\ \E t \in TimePoints : t > now /\ now' = t
    /\ rl_last' = NoCheck
    /\ UNCHANGED <<db_status, db_users, db_bans, db_rate, hvars, gvars, hxvars, logvars, auxvars>>

\* a call of check_rate_limit
RateCheckDirect(u, limit_minutes, max_requests, ok) ==
    /\ rl_last' = [called |-> TRUE, user_id |-> u, limit_minutes |-> limit_minutes,
                   max_requests |-> max_requests, ok |-> ok,
                   result |-> CheckRateLimit(db_rate, u, now, limit_minutes,
                                             max_requests, ok)]
    /\ UNCHANGED <<db_status, db_users, db_bans, db_rate, now, hvars, gvars, hxvars, logvars, auxvars>>

\* a call of record_request
RateRecordDirect(u, fault) ==
    /\ Len(db_rate) < MaxEntries
    /\ db_rate' = RecordRequest(db_rate, u, now, fault)
    /\ rl_last' = NoCheck
    /\ UNCHANGED <<db_status, db_users, db_bans, now, hvars, gvars, hxvars, logvars, auxvars>>

(***************************************************************************)
(* The channel logger (logger.py): the queue of failed messages and the    *)
(* task that retries them                                                  *)
(***************************************************************************)
\* logger.py:164-165
MaxFailedMessages == 100
KeepFailedMessages == 50
\* logger.py:178
MaxMessageRetries == 3

\* logger.py:156-161; the texts of the messages are not told apart
NewFailedMessage == [message |-> "m", retry_count |-> 0]

\* q[-n:]
LastN(q, n) == SubSeq(q, Len(q) - n + 1, Len(q))

\* the queue cut one entry too late
StoreFailedMessageLate(q) ==
    IF Len(Append(q, NewFailedMessage)) > MaxFailedMessages + 1
    THEN LastN(Append(q, NewFailedMessage), KeepFailedMessages)
    ELSE Append(q, NewFailedMessage)

\* _store_failed_message, logger.py:154-165
StoreFailedMessage(q) ==
    IF Len(Append(q, NewFailedMessage)) > MaxFailedMessages
    THEN LastN(Append(q, NewFailedMessage), KeepFailedMessages)
    ELSE Append(q, NewFailedMessage)

\* the entries that _store_failed_message takes from the front of q
Cut(q) == Len(q) + 1 - Len(StoreFailedMessage(q))

\* what became of one _send_log_message call: "none" (not called), "sent",
\* "not_initialized" (lines 101-104), "refused" (ChannelInvalid,
\* ChatWriteForbidden, UserDeactivated), "flood_wait" (FloodWait on every
\* attempt), "send_failed" (another exception on the last attempt), "raised"
\* (the log function raised before it got to send).  The message is stored at
\* lines 103 and 149 only
SendStores(outcome) == outcome \in {"not_initialized", "send_failed"}

\* _send_log_message, logger.py:99-152, as the queue and the retry task see it
SendLogMessage(outcome) ==
    /\ lq' = IF SendStores(outcome) THEN StoreFailedMessage(lq) ELSE lq
    /\ lr_pos' = IF SendStores(outcome) /\ lr_snap # <<>> THEN lr_pos - Cut(lq) ELSE lr_pos

LogInit ==
    /\ lq = <<>>
    /\ lr_snap = <<>>
    /\ lr_pos = 0

\* a log function called by a handler that is not followed here, such as
\* log_user_action of /help (commands.py:70)
LogSend(outcome) ==
    /\ SendLogMessage(outcome)
    /\ UNCHANGED <<lr_snap, advars, gvars, dbvars, hvars, hxvars, logvars>>

\* _retry_failed_messages, logger.py:171-177: the task wakes up and copies the
\* queue it is going to walk through
RetryWake ==
    /\ lr_snap = <<>>
    /\ lq # <<>>
    /\ lr_snap' = lq
    /\ lr_pos' = 1
    /\ UNCHANGED <<lq, advars, gvars, dbvars, hvars, hxvars, logvars>>

\* list.remove of the entry at place i
Remove(q, i) == SubSeq(q, 1, i - 1) \o SubSeq(q, i + 1, Len(q))

\* logger.py:177-192: one iteration of the loop over the copy.  The entry is
\* in failed_messages (at lr_pos) unless a cut has taken it out since the copy
\* was made; failed_messages.remove of an entry that is not there raises
\* ValueError, which line 194 catches, and the walk is over
RetryOne(outcome) ==
    /\ lr_snap # <<>>
    /\ LET msg_data == Head(lr_snap)
           rest == Tail(lr_snap)
           Place(n) == IF rest = <<>> THEN 0 ELSE n
       IN IF msg_data.retry_count >= MaxMessageRetries \/ outcome = "sent"
          THEN IF lr_pos >= 1
               THEN /\ lq' = Remove(lq, lr_pos)
                    /\ lr_snap' = rest
                    /\ lr_pos' = Place(lr_pos)
               ELSE /\ lq' = lq
                    /\ lr_snap' = <<>>
                    /\ lr_pos' = 0
          ELSE LET q1 == IF SendStores(outcome) THEN StoreFailedMessage(lq) ELSE lq
                   p1 == IF SendStores(outcome) THEN lr_pos - Cut(lq) ELSE lr_pos
               IN /\ lq' = IF p1 >= 1 THEN [q1 EXCEPT ![p1].retry_count = @ + 1] ELSE q1
                  /\ lr_snap' = rest
                  /\ lr_pos' = Place(p1 + 1)
    /\ UNCHANGED <<advars, gvars, dbvars, hvars, hxvars, logvars>>

(***************************************************************************)
(* The admin commands and the admin panel (admin.py)                       *)
(***************************************************************************)
\* Config.ADMIN_IDS, which MedusaXDBot.initialize puts into the admins
\* collection (main.py:44-47)
AdminIds == {1}

NoAdminCall == [cmd |-> "none", caller |-> 0, lookup_ok |-> TRUE, reply |-> "", wrote |-> {}]

AdminInit ==
    /\ db_admins = AdminIds
    /\ a_last = NoAdminCall
    /\ db_meta = [u \in Users |-> IF u \in db_users THEN [authorized_at |-> 0, added_by |-> 0]
                                  ELSE NoMeta]

\* is_admin, database.py:155-162; ok is FALSE when find_one raises
IsAdmin(u, ok) == ok /\ u \in db_admins

\* the admin check letting the caller in when the lookup fails
CheckAdminOpenOnError(u, ok) == ~ok \/ u \in db_admins

\* _check_admin, admin.py:22-24
CheckAdmin(u, ok) == IsAdmin(u, ok)

\* what a command does once its caller is let in: the reply, the writing
\* calls it makes, the collections after them, and whether it logs to the
\* channel
Quiet(reply) ==
    [reply |-> reply, wrote |-> {}, users |-> db_users, bans |-> db_bans,
     status |-> db_status, channel |-> FALSE]

\* an admin handler from its entry to its return: the check of the caller,
\* then r
AdminDo(cmd, caller, ok, r, ch) ==
    /\ a_last' = [cmd |-> cmd, caller |-> caller, lookup_ok |-> ok,
                  reply |-> IF CheckAdmin(caller, ok) THEN r.reply ELSE "denied",
                  wrote |-> IF CheckAdmin(caller, ok) THEN r.wrote ELSE {}]
    /\ StoreUsers([v \in Users |->
                      IF ~CheckAdmin(caller, ok) THEN UserDoc(v)
                      ELSE IF v \notin r.users THEN RemoveAuthorizedUser(UserDoc(v))
                      ELSE IF v \notin db_users THEN AddAuthorizedUser(UserDoc(v), now, caller)
                      ELSE UserDoc(v)])
    /\ db_bans' = IF CheckAdmin(caller, ok) THEN r.bans ELSE db_bans
    /\ db_status' = IF CheckAdmin(caller, ok) THEN r.status ELSE db_status
    /\ SendLogMessage(IF CheckAdmin(caller, ok) /\ r.channel THEN ch ELSE "none")
    /\ UNCHANGED <<db_admins, db_rate, now, rl_last, lr_snap, gvars, hvars, hxvars, db_logs>>

\* admin.py:327-378; has_arg: context.args[0] is a number, write_ok: the
\* storage call that writes succeeds
add_user(caller, ok, has_arg, target, write_ok, ch) ==
    AdminDo("add_user", caller, ok,
            IF ~has_arg THEN Quiet("usage")
            ELSE IF IsUserAuthorized(target, TRUE) THEN Quiet("already_authorized")
            ELSE IF ~write_ok THEN Quiet("failed")
            ELSE [Quiet("added") EXCEPT
                    !.wrote = {"add_authorized_user", "log_admin_action"},
                    !.users = db_users \cup {target},
                    !.channel = TRUE],
            ch)

\* admin.py:380-430
remove_user(caller, ok, has_arg, target, write_ok, ch) ==
    AdminDo("remove_user", caller, ok,
            IF ~has_arg THEN Quiet("usage")
            ELSE IF ~IsUserAuthorized(target, TRUE) THEN Quiet("not_authorized")
            ELSE IF ~write_ok THEN Quiet("failed")
            ELSE [Quiet("removed") EXCEPT
                    !.wrote = {"remove_authorized_user", "log_admin_action"},
                    !.users = db_users \ {target},
                    !.channel = TRUE],
            ch)

\* admin.py:432-485
ban_user(caller, ok, has_arg, target, write_ok, ch) ==
    AdminDo("ban_user", caller, ok,
            IF ~has_arg THEN Quiet("usage")
            ELSE IF IsUserBanned(target, TRUE) THEN Quiet("already_banned")
            ELSE IF ~write_ok THEN Quiet("failed")
            ELSE [Quiet("banned") EXCEPT
                    !.wrote = {"ban_user", "log_admin_action"},
                    !.bans = db_bans \cup {target},
                    !.channel = TRUE],
            ch)

\* admin.py:487-537
unban_user(caller, ok, has_arg, target, write_ok, ch) ==
    AdminDo("unban_user", caller, ok,
            IF ~has_arg THEN Quiet("usage")
            ELSE IF ~IsUserBanned(target, TRUE) THEN Quiet("not_banned")
            ELSE IF ~write_ok THEN Quiet("failed")
            ELSE [Quiet("unbanned") EXCEPT
                    !.wrote = {"unban_user", "log_admin_action"},
                    !.bans = db_bans \ {target},
                    !.channel = TRUE],
            ch)

\* admin.py:539-607; has_arg: a message was given
broadcast(caller, ok, has_arg, ch) ==
    AdminDo("broadcast", caller, ok,
            IF ~has_arg THEN Quiet("usage")
            ELSE IF db_users = {} THEN Quiet("no_users")
            ELSE [Quiet("broadcast_complete") EXCEPT
                    !.wrote = {"send_message", "log_admin_action"},
                    !.channel = TRUE],
            ch)

\* admin.py:609-654
list_users(caller, ok) ==
    AdminDo("list_users", caller, ok,
            IF db_users = {} THEN Quiet("no_users") ELSE Quiet("user_list"), "none")

\* admin.py:656-692
stats(caller, ok) == AdminDo("stats", caller, ok, Quiet("statistics"), "none")

\* admin.py:694-735; word: the status that context.args[0] asks for, "enabled"
\* for enable and on, "disabled" for disable and off, "" for anything else
bot_status(caller, ok, word, write_ok) ==
    AdminDo("bot_status", caller, ok,
            IF word = "" THEN Quiet("status_shown")
            ELSE IF ~write_ok THEN Quiet("failed")
            ELSE [Quiet("status_changed") EXCEPT
                    !.wrote = {"set_bot_status", "log_admin_action"},
                    !.status = word],
            "none")

\* the callback_data of the buttons of the panel, admin.py:54-69
PanelButtons ==
    {"admin_users", "admin_bans", "admin_stats", "admin_broadcast", "admin_toggle_bot",
     "admin_refresh"}

\* admin.py:80-103 with _toggle_bot_status (291-325); the other buttons only
\* read and show
button_callback(caller, ok, data, read_ok, write_ok) ==
    AdminDo("button_callback", caller, ok,
            IF data # "admin_toggle_bot" THEN Quiet(data)
            ELSE IF ~write_ok THEN Quiet("failed")
            ELSE [Quiet("status_changed") EXCEPT
                    !.wrote = {"set_bot_status", "log_admin_action"},
                    !.status = IF GetBotStatus(read_ok) THEN "disabled" ELSE "enabled"],
            "none")

(***************************************************************************)
(* The generation handlers: main._handle_generation and                    *)
(* commands.generate_command, one step per awaited call                    *)
(***************************************************************************)
NumProcs == 3
Procs == 1..NumProcs
Variants == {"main", "commands"}

NoText == [lead |-> 0, body |-> 0, trail |-> 0]
ShortText == [lead |-> 0, body |-> 2, trail |-> 0]
OkText == [lead |-> 0, body |-> 3, trail |-> 0]

NoSaw == [enabled |-> "unread", authorized |-> "unread", banned |-> "unread", count |-> -1]

YesNo(b) == IF b THEN "yes" ELSE "no"

HInit ==
    /\ h_pc = [p \in Procs |-> "idle"]
    /\ h_user = [p \in Procs |-> 0]
    /\ h_variant = [p \in Procs |-> "main"]
    /\ h_text = [p \in Procs |-> NoText]
    /\ h_saw = [p \in Procs |-> NoSaw]
    /\ h_dberr = [p \in Procs |-> {}]
    /\ h_msgs = [p \in Procs |-> <<>>]
    /\ h_verb = [p \in Procs |-> "generate"]
    /\ h_flags = [p \in Procs |-> <<>>]
    /\ h_audit = [p \in Procs |-> <<>>]
    /\ h_probe = [p \in Procs |-> "none"]
    /\ h_sent = [p \in Procs |-> <<>>]
    /\ h_placeholder = [p \in Procs |-> <<>>]

\* the handler of command word `verb` is entered for a message of user u:
\* commands.generate_command starts with log_user_action, the handlers of
\* main.py start with the permission gate
CmdStart(p, u, v, verb, flags, text) ==
    /\ h_pc[p] = "idle"
    /\ h_pc' = [h_pc EXCEPT ![p] = IF v = "commands" THEN "audit" ELSE "gate_status"]
    /\ h_user' = [h_user EXCEPT ![p] = u]
    /\ h_variant' = [h_variant EXCEPT ![p] = v]
    /\ h_verb' = [h_verb EXCEPT ![p] = verb]
    /\ h_flags' = [h_flags EXCEPT ![p] = flags]
    /\ h_text' = [h_text EXCEPT ![p] = text]
    /\ UNCHANGED <<h_saw, h_dberr, h_msgs, h_audit, h_probe, h_sent, h_placeholder>>
    /\ UNCHANGED <<dbvars, gvars, logvars, auxvars>>

\* what one call of a channel log function of logger.py does: the message is
\* sent; the log client is not initialized; the channel refuses it; every
\* send attempt fails; the function's own body raises.  Each is caught.
LogOutcomes == {"sent", "not_initialized", "refused", "send_failed", "raised"}

\* commands.py:250: await self.bot_logger.log_user_action(...)
AuditLog(p, outcome) ==
    /\ h_pc[p] = "audit"
    /\ h_audit' = [h_audit EXCEPT ![p] = Append(@, outcome)]
    /\ h_pc' = [h_pc EXCEPT ![p] = "gate_status"]
    /\ SendLogMessage(outcome)
    /\ UNCHANGED <<h_user, h_variant, h_text, h_saw, h_dberr, h_msgs>>
    /\ UNCHANGED <<h_verb, h_flags, h_probe, h_sent, h_placeholder>>
    /\ UNCHANGED <<dbvars, gvars, logvars, advars, lr_snap>>

\* reply_text(msg) without the `return` that follows it
DenyWithoutReturn(p, msg) ==
    /\ h_pc' = [h_pc EXCEPT ![p] = "record"]
    /\ h_msgs' = [h_msgs EXCEPT ![p] = Append(@, msg)]

\* reply_text(msg) and return
Deny(p, msg) ==
    /\ h_pc' = [h_pc EXCEPT ![p] = "done"]
    /\ h_msgs' = [h_msgs EXCEPT ![p] = Append(@, msg)]

Goto(p, pc) ==
    /\ h_pc' = [h_pc EXCEPT ![p] = pc]
    /\ h_msgs' = h_msgs

Logged(p, ok, what) ==
    h_dberr' = [h_dberr EXCEPT ![p] = IF ok THEN @ ELSE @ \cup {what}]

\* the stage that follows the permission gate
AfterGate(v) == IF v = "main" THEN "prompt" ELSE "rate_check"

\* _check_user_permissions: the bot-enabled check
GateStatus(p, ok) ==
    /\ h_pc[p] = "gate_status"
    /\ h_saw' = [h_saw EXCEPT ![p].enabled = YesNo(GetBotStatus(ok))]
    /\ Logged(p, ok, "get_bot_status")
    /\ IF ~GetBotStatus(ok) THEN Deny(p, "disabled") ELSE Goto(p, "gate_auth")
    /\ UNCHANGED <<h_user, h_variant, h_text, dbvars, gvars, hxvars, logvars, auxvars>>

\* _check_user_permissions: the authorization check
GateAuth(p, ok) ==
    /\ h_pc[p] = "gate_auth"
    /\ h_saw' = [h_saw EXCEPT ![p].authorized = YesNo(IsUserAuthorized(h_user[p], ok))]
    /\ Logged(p, ok, "is_user_authorized")
    /\ IF ~IsUserAuthorized(h_user[p], ok)
       THEN Deny(p, "not_authorized")
       ELSE Goto(p, "gate_ban")
    /\ UNCHANGED <<h_user, h_variant, h_text, dbvars, gvars, hxvars, logvars, auxvars>>

\* _check_user_permissions: the ban check, with get_ban_info and the reply
\* when banned, update_user_activity and `return True` when not
GateBan(p, ok) ==
    /\ h_pc[p] = "gate_ban"
    /\ h_saw' = [h_saw EXCEPT ![p].banned = YesNo(IsUserBanned(h_user[p], ok))]
    /\ Logged(p, ok, "is_user_banned")
    /\ IF IsUserBanned(h_user[p], ok)
       THEN Deny(p, "banned")
       ELSE Goto(p, AfterGate(h_variant[p]))
    /\ UNCHANGED <<h_user, h_variant, h_text, dbvars, gvars, hxvars, logvars, auxvars>>

\* main.py:122-133: message.text.split(maxsplit=1) has a second part;
\* commands.py:265-290: context.args is not empty and the joined, parsed
\* prompt has 3 characters or more after strip()
PromptProblem(v, text) ==
    IF text.body = 0 THEN "no_prompt"
    ELSE IF v = "commands" /\ StrLen(Strip(text)) < MinPromptLen THEN "too_short"
    ELSE ""

PromptCheck(p) ==
    /\ h_pc[p] = "prompt"
    /\ IF PromptProblem(h_variant[p], h_text[p]) # ""
       THEN Deny(p, PromptProblem(h_variant[p], h_text[p]))
       ELSE Goto(p, IF h_variant[p] = "main" THEN "rate_check" ELSE "record")
    /\ UNCHANGED <<h_user, h_variant, h_text, h_saw, h_dberr, dbvars, gvars, hxvars, logvars, auxvars>>

\* main.py:135-142, commands.py:255-263
RateCheck(p, ok) ==
    /\ h_pc[p] = "rate_check"
    /\ h_saw' = [h_saw EXCEPT ![p].count =
                    IF ok THEN CountDocuments(db_rate, h_user[p], now - RATE_LIMIT_MINUTES)
                    ELSE -1]
    /\ Logged(p, ok, "check_rate_limit")
    /\ IF ~CheckRateLimit(db_rate, h_user[p], now, RATE_LIMIT_MINUTES,
                          MAX_REQUESTS_PER_PERIOD, ok)
       THEN Deny(p, "rate_limited")
       ELSE Goto(p, IF h_variant[p] = "main" THEN "record" ELSE "prompt")
    /\ UNCHANGED <<h_user, h_variant, h_text, dbvars, gvars, hxvars, logvars, auxvars>>

\* main.py:144-145, commands.py:292-293
RecordStep(p, fault) ==
    /\ h_pc[p] = "record"
    /\ Len(db_rate) < MaxEntries
    /\ db_rate' = RecordRequest(db_rate, h_user[p], now, fault)
    /\ Logged(p, fault = "none", "record_request")
    /\ Goto(p, "placeholder")
    /\ UNCHANGED <<h_user, h_variant, h_text, h_saw>>
    /\ UNCHANGED <<db_status, db_users, db_bans, now, rl_last, gvars, hxvars, logvars, auxvars>>

(***************************************************************************)
(* The generation handlers, from the placeholder to the end                *)
(***************************************************************************)
\* main.py:85-111: the model and the aspect ratio each command word passes to
\* _handle_generation
VerbModel ==
    [generate |-> "turbo", quick |-> "turbo", flux |-> "flux", creative |-> "gptimage",
     portrait |-> "turbo", landscape |-> "flux", square |-> "turbo"]

VerbAspect ==
    [generate |-> "landscape", quick |-> "square", flux |-> "landscape",
     creative |-> "portrait", portrait |-> "portrait", landscape |-> "landscape",
     square |-> "square"]

\* the characters the tokens of `flags` take in the message, each with the
\* whitespace that separates it from what follows
RECURSIVE FlagsLen(_)
FlagsLen(flags) ==
    IF flags = <<>> THEN 0 ELSE Head(flags).len + 1 + FlagsLen(Tail(flags))

\* main.py:122-133: command_parts[1] of message.text.split(maxsplit=1), the
\* whole rest of the message; commands.py:279: " ".join(context.args)
RestOfMessage(flags, text) ==
    [lead |-> 0, body |-> FlagsLen(flags) + text.body, trail |-> text.trail]

\* commands.py:210-243.  The three patterns start with "$$", two end-of-string
\* anchors, followed by a literal, so re.search finds nothing in any text: the
\* defaults are returned with the stripped text
ParseGenerationOptions(text, default_model) ==
    [prompt |-> Strip(text), model |-> default_model, aspect_ratio |-> "landscape",
     num_images |-> 1]

\* the arguments of the generate_images call of main.py:171-177 and of
\* commands.py:307-312; default_model is Config.DEFAULT_MODEL
HandlerArgs(v, verb, flags, text, default_model) ==
    IF v = "main"
    THEN [prompt |-> RestOfMessage(flags, text),
          model |-> VerbModel[verb],
          num_images |-> 1,
          aspect_ratio |-> VerbAspect[verb],
          seed |-> NoSeed,
          timeout |-> 90,
          style |-> "realistic"]
    ELSE LET o == ParseGenerationOptions(RestOfMessage(flags, text), default_model) IN
         [prompt |-> o.prompt,
          model |-> o.model,
          num_images |-> o.num_images,
          aspect_ratio |-> o.aspect_ratio,
          seed |-> NoSeed,
          timeout |-> 90,
          style |-> "realistic"]

Say(p, msg) == h_msgs' = [h_msgs EXCEPT ![p] = Append(@, msg)]

At(p, pc) == h_pc' = [h_pc EXCEPT ![p] = pc]

\* a call on processing_msg, the placeholder.  "sent": reply_text returned it;
\* "deleted" and "delete_failed": what delete() did; "edited": edit_text
\* replaced its text; "edit_refused": edit_text was called on the placeholder
\* after its delete(), which Telegram refuses with an error
Did(p, what) == h_placeholder' = [h_placeholder EXCEPT ![p] = Append(@, what)]

Deleted(p) == \E i \in DOMAIN h_placeholder[p] : h_placeholder[p][i] = "deleted"

\* processing_msg.edit_text(...)
Edit(p) == Did(p, IF Deleted(p) THEN "edit_refused" ELSE "edited")

\* main.py:147-158, commands.py:295-303: the "Generating ..." message
Placeholder(p) ==
    /\ h_pc[p] = "placeholder"
    /\ Say(p, "placeholder")
    /\ Did(p, "sent")
    /\ At(p, IF h_variant[p] = "main" THEN "probe" ELSE "generate")
    /\ UNCHANGED <<h_user, h_variant, h_text, h_saw, h_dberr, dbvars, gvars, logvars, auxvars>>
    /\ UNCHANGED <<h_verb, h_flags, h_audit, h_probe, h_sent>>

\* infip_provider.py:366-397: one request through _sync_request
TestConnection(o) == SyncRequest(o) = "return" /\ UsableResponse(o.body)

\* main.py:161-168
Probe(p, o) ==
    /\ h_pc[p] = "probe"
    /\ h_probe' = [h_probe EXCEPT ![p] = IF TestConnection(o) THEN "ok" ELSE "failed"]
    /\ IF TestConnection(o)
       THEN At(p, "generate") /\ h_msgs' = h_msgs /\ h_placeholder' = h_placeholder
       ELSE At(p, "done") /\ Say(p, "service_unavailable") /\ Edit(p)
    /\ UNCHANGED <<h_user, h_variant, h_text, h_saw, h_dberr>>
    /\ UNCHANGED <<h_verb, h_flags, h_audit, h_sent, dbvars, gvars, logvars, auxvars>>

\* main.py:171, commands.py:307: generate_images is entered
CallGenerate(p, default_model, rnd) ==
    /\ h_pc[p] = "generate"
    /\ GenCall(HandlerArgs(h_variant[p], h_verb[p], h_flags[p], h_text[p], default_model),
               rnd)

\* main.py:206
IsModelError(msg) == msg = "Model not supported"

\* the handler going on to the statistics whatever generate_images did
GenReturnIgnoringFailure(p) ==
    /\ h_pc[p] = "generate"
    /\ g_pc = "done"
    /\ At(p, "finish")
    /\ UNCHANGED <<h_user, h_variant, h_text, h_saw, h_dberr, h_msgs>>
    /\ UNCHANGED <<dbvars, gvars, hxvars, logvars, auxvars>>

\* generate_images has returned or raised.  main.py:179 and 198-217: the
\* message of the except clause that matches; commands.py:314 and 364
GenReturn(p) ==
    /\ h_pc[p] = "generate"
    /\ g_pc = "done"
    /\ CASE g_result.kind = "ImageResponse" ->
                At(p, "delete_placeholder") /\ h_msgs' = h_msgs /\ h_placeholder' = h_placeholder
         [] g_result.kind # "ImageResponse" /\ h_variant[p] = "commands" ->
                At(p, "failed") /\ h_msgs' = h_msgs /\ h_placeholder' = h_placeholder
         [] g_result.kind = "ValueError" /\ h_variant[p] = "main" ->
                At(p, "done") /\ Say(p, "invalid_input") /\ Edit(p)
         [] OTHER ->
                /\ At(p, "done")
                /\ Say(p, IF IsModelError(g_result.msg) THEN "model_error"
                          ELSE "generation_failed")
                /\ Edit(p)
    /\ UNCHANGED <<h_user, h_variant, h_text, h_saw, h_dberr, dbvars, gvars, logvars, auxvars>>
    /\ UNCHANGED <<h_verb, h_flags, h_audit, h_probe, h_sent>>

\* log_generation, database.py:279-297
LogGeneration(logs, u, success, error, ok) ==
    IF ok THEN Append(logs, [user_id |-> u, success |-> success, error |-> error])
    ELSE logs

\* str(e) at commands.py:376 and 389
ErrorText(p) ==
    IF g_result.kind = "ImageResponse" THEN "telegram error" ELSE g_result.msg

\* commands.py:364-390: the except clause around generation and delivery
GenerationFailed(p, ok, delete_ok) ==
    /\ h_pc[p] = "failed"
    /\ Did(p, IF delete_ok /\ ~Deleted(p) THEN "deleted" ELSE "delete_failed")
    /\ Say(p, "generation_failed")
    /\ db_logs' = LogGeneration(db_logs, h_user[p], FALSE, ErrorText(p), ok)
    /\ Logged(p, ok, "log_generation")
    /\ At(p, "done")
    /\ UNCHANGED <<h_user, h_variant, h_text, h_saw, dbvars, gvars, db_incs, auxvars>>
    /\ UNCHANGED <<h_verb, h_flags, h_audit, h_probe, h_sent>>

\* main.py:180: a failing delete() is caught at 218; commands.py:315-318: it is
\* ignored
DeletePlaceholder(p, ok) ==
    /\ h_pc[p] = "delete_placeholder"
    /\ IF ok \/ h_variant[p] = "commands"
       THEN /\ At(p, "deliver")
            /\ h_msgs' = h_msgs
            /\ Did(p, IF ok THEN "deleted" ELSE "delete_failed")
       ELSE /\ At(p, "done")
            /\ Say(p, "unexpected_error")
            /\ h_placeholder' = [h_placeholder EXCEPT ![p] = @ \o <<"delete_failed", "edited">>]
    /\ UNCHANGED <<h_user, h_variant, h_text, h_saw, h_dberr, dbvars, gvars, logvars, auxvars>>
    /\ UNCHANGED <<h_verb, h_flags, h_audit, h_probe, h_sent>>

Sent(p, what) == h_sent' = [h_sent EXCEPT ![p] = Append(@, what)]

\* main.py:183-192: reply_photo of data[0], a failure is caught at 218, where
\* the placeholder to edit is already deleted;
\* commands.py:324-344: one iteration of the loop over the images, a failing
\* reply_photo is answered by reply_text, whose failure is caught at 364
Deliver(p, ok, notice_ok) ==
    /\ h_pc[p] = "deliver"
    /\ CASE ok ->
                /\ Sent(p, "photo")
                /\ Say(p, "photo")
                /\ h_placeholder' = h_placeholder
                /\ At(p, IF h_variant[p] = "main" \/ Len(h_sent[p]) + 1 = Len(g_result.images)
                         THEN "finish" ELSE "deliver")
         [] ~ok /\ h_variant[p] = "main" ->
                /\ Sent(p, "failed")
                /\ h_msgs' = h_msgs     \* edit_text of the deleted placeholder raises
                /\ Edit(p)
                /\ At(p, "done")
         [] ~ok /\ h_variant[p] = "commands" /\ notice_ok ->
                /\ Sent(p, "notice")
                /\ Say(p, "image_failed_notice")
                /\ h_placeholder' = h_placeholder
                /\ At(p, IF Len(h_sent[p]) + 1 = Len(g_result.images)
                         THEN "finish" ELSE "deliver")
         [] OTHER ->
                /\ Sent(p, "failed")
                /\ h_msgs' = h_msgs
                /\ h_placeholder' = h_placeholder
                /\ At(p, "failed")
    /\ UNCHANGED <<h_user, h_variant, h_text, h_saw, h_dberr>>
    /\ UNCHANGED <<h_verb, h_flags, h_audit, h_probe, dbvars, gvars, logvars, auxvars>>

\* increment_user_generations, database.py:126-134: $inc on the user's document
IncrementUserGenerations(incs, u, ok) ==
    IF ok /\ u \in db_users THEN [incs EXCEPT ![u] = @ + 1] ELSE incs

\* main.py:194-196, commands.py:346-362: the counter, the success entry and,
\* in commands.py, log_image_generation to the channel
Finish(p, inc_ok, log_ok, channel) ==
    /\ h_pc[p] = "finish"
    /\ db_incs' = IncrementUserGenerations(db_incs, h_user[p], inc_ok)
    /\ db_logs' = LogGeneration(db_logs, h_user[p], TRUE, "", log_ok)
    /\ h_dberr' = [h_dberr EXCEPT ![p] =
                      @ \cup (IF inc_ok THEN {} ELSE {"increment_user_generations"})
                        \cup (IF log_ok THEN {} ELSE {"log_generation"})]
    /\ h_audit' = [h_audit EXCEPT ![p] =
                      IF h_variant[p] = "commands" THEN Append(@, channel) ELSE @]
    /\ SendLogMessage(IF h_variant[p] = "commands" THEN channel ELSE "none")
    /\ At(p, "done")
    /\ UNCHANGED <<h_user, h_variant, h_text, h_saw, h_msgs>>
    /\ UNCHANGED <<h_verb, h_flags, h_probe, h_sent, h_placeholder>>
    /\ UNCHANGED <<dbvars, gvars, advars, lr_snap>>

(***************************************************************************)
(* Specifications                                                          *)
(***************************************************************************)
Init == GenInit /\ DbInit /\ HInit /\ AdminInit /\ LogInit

\* the retry loop under every transport outcome
NextGen ==
    \/ GenCallFew
    \/ AttemptTimeout
    \/ AttemptConnectionError
    \/ AttemptException
    \/ AttemptResponse
    \/ AttemptHTTPError

SpecGen == Init /\ [][NextGen]_vars

\* the loop of _make_request_with_retry always goes on: a request ends within
\* its timeout and a sleep within its delay
SpecGenFair == SpecGen /\ WF_vars(NextGen)

\* validation and payload construction under every argument combination
NextPayload ==
    \/ GenCallAll
    \/ GenCallLong
    \/ AttemptFew

SpecPayload == Init /\ [][NextPayload]_vars

\* the permission gate of one command, with the storage changing under it
GateCmdStart ==
    h_pc[1] = "idle" /\ \E u \in Users, v \in Variants : CmdStart(1, u, v, "generate", <<>>, OkText)

GateAuditStep == \E p \in Procs : h_pc[p] = "audit" /\ \E o \in LogOutcomes : AuditLog(p, o)

GateStatusStep == \E p \in Procs : h_pc[p] = "gate_status" /\ \E ok \in BOOLEAN : GateStatus(p, ok)

GateAuthStep == \E p \in Procs : h_pc[p] = "gate_auth" /\ \E ok \in BOOLEAN : GateAuth(p, ok)

GateBanStep == \E p \in Procs : h_pc[p] = "gate_ban" /\ \E ok \in BOOLEAN : GateBan(p, ok)

AdminSetBotStatus == \E e \in BOOLEAN : DbSetBotStatus(e)

AdminAddUser == \E u \in Users : DbAddUser(u)

AdminRemoveUser == \E u \in Users : DbRemoveUser(u)

AdminBanUser == \E u \in Users : DbBanUser(u)

AdminUnbanUser == \E u \in Users : DbUnbanUser(u)

NextGate ==
    \/ GateCmdStart
    \/ GateAuditStep
    \/ GateStatusStep
    \/ GateAuthStep
    \/ GateBanStep
    \/ AdminSetBotStatus
    \/ AdminAddUser
    \/ AdminRemoveUser
    \/ AdminBanUser
    \/ AdminUnbanUser

SpecGate == Init /\ [][NextGate]_vars

\* check_rate_limit and record_request called directly, over time
Windows == {RATE_LIMIT_MINUTES, 1}
Limits == {1, MAX_REQUESTS_PER_PERIOD}

RateCheckCall ==
    \E u \in Users, w \in Windows, m \in Limits, ok \in BOOLEAN :
        RateCheckDirect(u, w, m, ok)

RateRecordCall == \E u \in Users, f \in RecordFaults : RateRecordDirect(u, f)

NextRate ==
    \/ Tick
    \/ RateCheckCall
    \/ RateRecordCall

SpecRate == Init /\ [][NextRate]_vars

\* the bot restarted over a database in use: initialize, the admin commands
\* that add and remove users, successful generations, and time
MaxGenerations == 2

\* main.py:37-52: add_admin and add_authorized_user(admin_id) for every id of
\* ADMIN_IDS; write_ok: the update_one of add_authorized_user does not raise
initialize(write_ok) ==
    /\ db_admins' = db_admins \cup AdminIds
    /\ StoreUsers([v \in Users |->
                      IF v \in AdminIds /\ write_ok
                      THEN AddAuthorizedUser(UserDoc(v), now, 0)
                      ELSE UserDoc(v)])
    /\ a_last' = [NoAdminCall EXCEPT !.cmd = "initialize"]
    /\ UNCHANGED <<db_status, db_bans, db_rate, now, rl_last, db_logs, lqvars>>
    /\ UNCHANGED <<gvars, hvars, hxvars>>

StartupInitialize == \E write_ok \in BOOLEAN : initialize(write_ok)

StartupTick ==
    /\ \E t \in TimePoints : t > now /\ now' = t
    /\ rl_last' = NoCheck
    /\ a_last' = NoAdminCall
    /\ UNCHANGED <<db_status, db_users, db_bans, db_rate, db_admins, db_meta>>
    /\ UNCHANGED <<gvars, hvars, hxvars, logvars, lqvars>>

\* a generation of user u that succeeded: main.py:195, commands.py:347
StartupGeneration ==
    \E u \in db_users :
        /\ db_incs[u] < MaxGenerations
        /\ db_incs' = IncrementUserGenerations(db_incs, u, TRUE)
        /\ a_last' = NoAdminCall
        /\ UNCHANGED <<dbvars, db_logs, db_admins, db_meta, gvars, hvars, hxvars, lqvars>>

StartupAddUser ==
    \E caller \in AdminIds, target \in Users : add_user(caller, TRUE, TRUE, target, TRUE, "sent")

StartupRemoveUser ==
    \E caller \in AdminIds, target \in Users :
        remove_user(caller, TRUE, TRUE, target, TRUE, "sent")

NextStartup ==
    \/ StartupInitialize
    \/ StartupTick
    \/ StartupGeneration
    \/ StartupAddUser
    \/ StartupRemoveUser

SpecStartup == Init /\ [][NextStartup]_vars

\* record_request and check_rate_limit over more than an hour, under windows
\* that the RATE_LIMIT_MINUTES of the environment can configure
HousekeepingTimes == {0, 30, 59, 60, 61, 90}

ConfiguredWindows == {RATE_LIMIT_MINUTES, PurgeMinutes, PurgeMinutes + 30}

LongTick ==
    /\ \E t \in HousekeepingTimes : t > now /\ now' = t
    /\ rl_last' = NoCheck
    /\ UNCHANGED <<db_status, db_users, db_bans, db_rate, hvars, gvars, hxvars, logvars, auxvars>>

PurgeCheckCall ==
    \E u \in Users, w \in ConfiguredWindows, m \in Limits : RateCheckDirect(u, w, m, TRUE)

PurgeRecordCall == \E u \in Users, f \in RecordFaults : RateRecordDirect(u, f)

NextPurge ==
    \/ LongTick
    \/ PurgeCheckCall
    \/ PurgeRecordCall

SpecPurge == Init /\ [][NextPurge]_vars

\* one command from its entry to its end, against an upstream that answers
\* with a timeout, a usable response or an HTTP 400, while the bot is switched
\* on and off and other commands of the user are recorded
ExampleFlags ==
    <<[text |-> "-r16:9", len |-> 6], [text |-> "-srealistic", len |-> 11],
      [text |-> "-n2", len |-> 3], [text |-> "-seed42", len |-> 7]>>

\* "a dragon"
DragonText == [lead |-> 0, body |-> 8, trail |-> 0]

FlowCommands ==
    {[v |-> v, verb |-> "generate", flags |-> <<>>, text |-> t] :
        v \in Variants, t \in {NoText, ShortText, OkText}}
    \cup {[v |-> "main", verb |-> "flux", flags |-> ExampleFlags, text |-> DragonText]}

DefaultModels == {"img3", "turbo"}

Photo == [is_dict |-> TRUE, has_url |-> TRUE, url |-> "u"]

FlowOutcomes ==
    {Timeout,
     Response(200, Obj(TRUE, <<Photo>>, "absent")),
     Response(200, Obj(TRUE, <<Photo, Photo>>, "absent")),
     Response(400, Obj(FALSE, <<>>, "dict_with_message"))}

FlowCmdStart ==
    h_pc[1] = "idle" /\ \E c \in FlowCommands : CmdStart(1, 1, c.v, c.verb, c.flags, c.text)

FlowAudit == h_pc[1] = "audit" /\ \E o \in LogOutcomes : AuditLog(1, o)

FlowGateStatus == h_pc[1] = "gate_status" /\ \E ok \in BOOLEAN : GateStatus(1, ok)

FlowGateAuth == h_pc[1] = "gate_auth" /\ GateAuth(1, TRUE)

FlowGateBan == h_pc[1] = "gate_ban" /\ GateBan(1, TRUE)

FlowPromptCheck == h_pc[1] = "prompt" /\ PromptCheck(1)

FlowRateCheck == h_pc[1] = "rate_check" /\ RateCheck(1, TRUE)

FlowRecord == h_pc[1] = "record" /\ RecordStep(1, "none")

FlowPlaceholder == h_pc[1] = "placeholder" /\ Placeholder(1)

FlowProbe == h_pc[1] = "probe" /\ \E o \in FlowOutcomes : Probe(1, o)

FlowCallGenerate ==
    h_pc[1] = "generate" /\ g_pc = "idle" /\ \E dm \in DefaultModels : CallGenerate(1, dm, 1)

FlowAttempt == g_pc = "retry" /\ \E o \in FlowOutcomes : Attempt(o, 0, 0)

FlowGenReturn == h_pc[1] = "generate" /\ g_pc = "done" /\ GenReturn(1)

FlowGenerationFailed ==
    h_pc[1] = "failed" /\ \E ok, delete_ok \in BOOLEAN : GenerationFailed(1, ok, delete_ok)

FlowDeletePlaceholder ==
    h_pc[1] = "delete_placeholder" /\ \E ok \in BOOLEAN : DeletePlaceholder(1, ok)

FlowDeliver == h_pc[1] = "deliver" /\ \E ok, notice_ok \in BOOLEAN : Deliver(1, ok, notice_ok)

FlowFinish ==
    h_pc[1] = "finish" /\
        \E inc_ok, log_ok \in BOOLEAN, ch \in {"sent", "send_failed"} :
            Finish(1, inc_ok, log_ok, ch)

\* record_request of another command of the same user
OtherRecord == Len(db_rate) < MaxEntries - 1 /\ RateRecordDirect(1, "none")

NextFlow ==
    \/ FlowCmdStart
    \/ FlowAudit
    \/ FlowGateStatus
    \/ FlowGateAuth
    \/ FlowGateBan
    \/ FlowPromptCheck
    \/ FlowRateCheck
    \/ FlowRecord
    \/ FlowPlaceholder
    \/ FlowProbe
    \/ FlowCallGenerate
    \/ FlowAttempt
    \/ FlowGenReturn
    \/ FlowGenerationFailed
    \/ FlowDeletePlaceholder
    \/ FlowDeliver
    \/ FlowFinish
    \/ AdminSetBotStatus
    \/ OtherRecord

\* the handler of p returns: its locals and the generate_images call it made
\* are gone, and the next update of the dispatcher can enter it
CmdReturn(p) ==
    /\ h_pc[p] = "done"
    /\ h_pc' = [h_pc EXCEPT ![p] = "idle"]
    /\ h_user' = [h_user EXCEPT ![p] = 0]
    /\ h_variant' = [h_variant EXCEPT ![p] = "main"]
    /\ h_text' = [h_text EXCEPT ![p] = NoText]
    /\ h_saw' = [h_saw EXCEPT ![p] = NoSaw]
    /\ h_dberr' = [h_dberr EXCEPT ![p] = {}]
    /\ h_msgs' = [h_msgs EXCEPT ![p] = <<>>]
    /\ h_verb' = [h_verb EXCEPT ![p] = "generate"]
    /\ h_flags' = [h_flags EXCEPT ![p] = <<>>]
    /\ h_audit' = [h_audit EXCEPT ![p] = <<>>]
    /\ h_probe' = [h_probe EXCEPT ![p] = "none"]
    /\ h_sent' = [h_sent EXCEPT ![p] = <<>>]
    /\ h_placeholder' = [h_placeholder EXCEPT ![p] = <<>>]
    /\ g_pc' = "idle"
    /\ g_args' = NoArgs
    /\ g_payload' = NoPayload
    /\ g_attempt' = 0
    /\ g_requests' = 0
    /\ g_outcomes' = <<>>
    /\ g_slept' = 0
    /\ g_waits' = <<>>
    /\ g_result' = NoResult
    /\ UNCHANGED <<dbvars, logvars, auxvars>>

\* the commands of one user one after the other, the storage and the upstream
\* working, the clock running
OnePhoto == Response(200, Obj(TRUE, <<Photo>>, "absent"))

SeqCmdStart ==
    h_pc[1] = "idle" /\
        \E v \in Variants, t \in {NoText, OkText} : CmdStart(1, 1, v, "generate", <<>>, t)

SeqAudit == h_pc[1] = "audit" /\ AuditLog(1, "sent")

SeqGateStatus == h_pc[1] = "gate_status" /\ GateStatus(1, TRUE)

SeqProbe == h_pc[1] = "probe" /\ Probe(1, OnePhoto)

SeqCallGenerate == h_pc[1] = "generate" /\ g_pc = "idle" /\ CallGenerate(1, "turbo", 1)

SeqAttempt == g_pc = "retry" /\ Attempt(OnePhoto, 0, 0)

SeqDeletePlaceholder == h_pc[1] = "delete_placeholder" /\ DeletePlaceholder(1, TRUE)

SeqDeliver == h_pc[1] = "deliver" /\ Deliver(1, TRUE, TRUE)

SeqFinish == h_pc[1] = "finish" /\ Finish(1, TRUE, TRUE, "sent")

SeqReturn == h_pc[1] = "done" /\ CmdReturn(1)

NextSeq ==
    \/ SeqCmdStart
    \/ SeqAudit
    \/ SeqGateStatus
    \/ FlowGateAuth
    \/ FlowGateBan
    \/ FlowPromptCheck
    \/ FlowRateCheck
    \/ FlowRecord
    \/ FlowPlaceholder
    \/ SeqProbe
    \/ SeqCallGenerate
    \/ SeqAttempt
    \/ FlowGenReturn
    \/ SeqDeletePlaceholder
    \/ SeqDeliver
    \/ SeqFinish
    \/ SeqReturn
    \/ Tick

\* the admin commands and the panel, called by an admin and by another user
MaxQueue == 3

ChannelOutcomes == {"sent", "send_failed"}

Room(ch) == SendStores(ch) => Len(lq) < MaxQueue

AdmAddUser ==
    \E caller, target \in Users, ok, has_arg, write_ok \in BOOLEAN, ch \in ChannelOutcomes :
        Room(ch) /\ add_user(caller, ok, has_arg, target, write_ok, ch)

AdmRemoveUser ==
    \E caller, target \in Users, ok, has_arg, write_ok \in BOOLEAN, ch \in ChannelOutcomes :
        Room(ch) /\ remove_user(caller, ok, has_arg, target, write_ok, ch)

AdmBanUser ==
    \E caller, target \in Users, ok, has_arg, write_ok \in BOOLEAN, ch \in ChannelOutcomes :
        Room(ch) /\ ban_user(caller, ok, has_arg, target, write_ok, ch)

AdmUnbanUser ==
    \E caller, target \in Users, ok, has_arg, write_ok \in BOOLEAN, ch \in ChannelOutcomes :
        Room(ch) /\ unban_user(caller, ok, has_arg, target, write_ok, ch)

AdmBroadcast ==
    \E caller \in Users, ok, has_arg \in BOOLEAN, ch \in ChannelOutcomes :
        Room(ch) /\ broadcast(caller, ok, has_arg, ch)

AdmListUsers == \E caller \in Users, ok \in BOOLEAN : list_users(caller, ok)

AdmStats == \E caller \in Users, ok \in BOOLEAN : stats(caller, ok)

AdmBotStatus ==
    \E caller \in Users, ok, write_ok \in BOOLEAN, word \in {"enabled", "disabled", ""} :
        bot_status(caller, ok, word, write_ok)

AdmButton ==
    \E caller \in Users, ok, read_ok, write_ok \in BOOLEAN, data \in PanelButtons :
        button_callback(caller, ok, data, read_ok, write_ok)

NextAdmin ==
    \/ AdmAddUser
    \/ AdmRemoveUser
    \/ AdmBanUser
    \/ AdmUnbanUser
    \/ AdmBroadcast
    \/ AdmListUsers
    \/ AdmStats
    \/ AdmBotStatus
    \/ AdmButton

SpecAdmin == Init /\ [][NextAdmin]_vars

\* log attempts and the retry task, the channel answering in every way
RetryOutcomes == {"sent", "not_initialized", "refused", "flood_wait", "send_failed"}

LogAttempt == \E o \in LogOutcomes : Room(o) /\ LogSend(o)

RetryTaskWake == lr_snap = <<>> /\ RetryWake

RetryTaskStep == lr_snap # <<>> /\ \E o \in RetryOutcomes : Room(o) /\ RetryOne(o)

NextLogRetry ==
    \/ LogAttempt
    \/ RetryTaskWake
    \/ RetryTaskStep

SpecLogRetry == Init /\ [][NextLogRetry]_vars

\* the queue filling up to its limit while the channel is down; the retry task
\* is followed when it wakes up with the queue within WakeSlack of the limit,
\* and so are the log attempts that fall into one of its walks
WakeSlack == 2

NearLimit == Len(lq) >= MaxFailedMessages - WakeSlack

DownLogAttempt == (lr_snap = <<>> \/ NearLimit) /\ \E o \in LogOutcomes : LogSend(o)

DownRetryWake == NearLimit /\ RetryWake

DownRetryStep == lr_snap # <<>> /\ RetryOne("send_failed")

NextLogCap ==
    \/ DownLogAttempt
    \/ DownRetryWake
    \/ DownRetryStep

SpecLogCap == Init /\ [][NextLogCap]_vars

\* concurrent commands of one user, every user authorized, the storage working
InitReady ==
    /\ GenInit
    /\ HInit
    /\ db_status = "enabled"
    /\ db_users = Users
    /\ db_bans = {}
    /\ db_rate = <<>>
    /\ now = 0
    /\ rl_last = NoCheck
    /\ db_incs = [u \in Users |-> 0]
    /\ db_logs = <<>>
    /\ AdminInit
    /\ LogInit

ConcCmdStart ==
    \E p \in Procs : h_pc[p] = "idle" /\
        \E v \in Variants, text \in {ShortText, OkText} : CmdStart(p, 1, v, "generate", <<>>, text)

ConcAudit == \E p \in Procs : h_pc[p] = "audit" /\ AuditLog(p, "sent")

ConcGateStatus == \E p \in Procs : h_pc[p] = "gate_status" /\ GateStatus(p, TRUE)

ConcGateAuth == \E p \in Procs : h_pc[p] = "gate_auth" /\ GateAuth(p, TRUE)

ConcGateBan == \E p \in Procs : h_pc[p] = "gate_ban" /\ GateBan(p, TRUE)

ConcPromptCheck == \E p \in Procs : h_pc[p] = "prompt" /\ PromptCheck(p)

ConcRateCheck == \E p \in Procs : h_pc[p] = "rate_check" /\ RateCheck(p, TRUE)

ConcRecord == \E p \in Procs : h_pc[p] = "record" /\ RecordStep(p, "none")

NextConc ==
    \/ ConcCmdStart
    \/ ConcAudit
    \/ ConcGateStatus
    \/ ConcGateAuth
    \/ ConcGateBan
    \/ ConcPromptCheck
    \/ ConcRateCheck
    \/ ConcRecord

SpecConc == InitReady /\ [][NextConc]_vars

SpecFlow == InitReady /\ [][NextFlow]_vars

SpecSeq == InitReady /\ [][NextSeq]_vars

(***************************************************************************)
(* Properties of generate_images                                           *)
(***************************************************************************)
GenDone == g_pc = "done"

GenFailed == GenDone /\ g_result.kind \in {"ValueError", "RuntimeError"}

IsStatus(o, statuses) == o.kind = "response" /\ o.status \in statuses

AllOutcomes(P(_)) == \A i \in DOMAIN g_outcomes : P(g_outcomes[i])

IsTimeout(o) == o = Timeout

Is429(o) == IsStatus(o, {429})

GoodEntry == [is_dict |-> TRUE, has_url |-> TRUE, url |-> "u"]

NumGood(data) == Cardinality({i \in DOMAIN data : data[i] = GoodEntry})

\* C1: a call all of whose requests time out issues exactly max_retries (3)
\* requests and then fails with RuntimeError: it never ends after fewer
\* requests and never issues more.
C1_TimeoutRetryBound ==
    (g_requests > 0 /\ AllOutcomes(IsTimeout)) =>
        /\ g_requests <= 3
        /\ g_requests = Len(g_outcomes)
        /\ GenDone => (g_requests = 3 /\ g_result.kind = "RuntimeError")
        /\ g_requests = 3 => GenDone

C1_Witness == GenDone /\ g_outcomes = <<Timeout, Timeout, Timeout>>

\* C2: a response with status 400, 401, 403 or 404 (for 400 whatever the body
\* is, a JSON body without "error" included) ends the call with a failure: it
\* is the last request of the call, and when it answers the first request the
\* call has issued exactly one request.
C2_NoRetryOnClientError ==
    \A i \in DOMAIN g_outcomes :
        IsStatus(g_outcomes[i], {400, 401, 403, 404}) =>
            /\ i = Len(g_outcomes)
            /\ g_requests = i
            /\ GenFailed

C2_Witness ==
    /\ GenFailed
    /\ g_outcomes = <<Response(400, Obj(FALSE, <<>>, "absent"))>>
    /\ g_requests = 1

\* C3: a call every request of which is answered with HTTP 429 makes 3
\* requests, sleeps at least 30 seconds before the second and the third, and
\* fails with RuntimeError.
C3_RateLimitRetried ==
    (GenDone /\ g_requests > 0 /\ AllOutcomes(Is429)) =>
        /\ g_requests = 3
        /\ \A k \in 2..Len(g_waits) : g_waits[k] >= 30
        /\ g_result.kind = "RuntimeError"

\* C4: a status >= 500 on an attempt that is not the last one is followed by
\* another attempt: a call that ended on a 5xx response has made 3 requests.
C4_ServerErrorRetried ==
    \A i \in DOMAIN g_outcomes :
        (g_outcomes[i].kind = "response" /\ g_outcomes[i].status >= 500 /\ i < 3) =>
            (Len(g_outcomes) > i \/ g_pc = "retry")

\* C5: a call whose model is not supported, or whose num_images is outside
\* [1,4], or whose prompt has fewer than 3 characters after trimming, raises
\* ValueError and issues no HTTP request.
C5_ValidationBeforeNetwork ==
    (/\ g_args # NoArgs
     /\ \/ g_args.model \notin {"flux", "turbo", "gptimage"}
        \/ g_args.num_images < 1
        \/ g_args.num_images > 4
        \/ g_args.prompt.body < 3) =>
        /\ GenDone
        /\ g_result.kind = "ValueError"
        /\ g_requests = 0

C5_Witness ==
    /\ GenDone
    /\ g_result.kind = "ValueError"
    /\ g_args.model = "turbo"
    /\ g_args.num_images = 1
    /\ g_args.prompt = [lead |-> 1, body |-> 2, trail |-> 1]

\* C6: a returned ImageResponse has at least one image and every image has a
\* non-empty url; a 200 response whose data entries are all invalid ends the
\* call with RuntimeError, and invalid entries next to valid ones are skipped.
C6_NeverZeroImages ==
    /\ g_result.kind = "ImageResponse" =>
          /\ g_result.images # <<>>
          /\ \A i \in DOMAIN g_result.images :
                g_result.images[i].has_url /\ g_result.images[i].url # ""
    /\ (GenDone /\ g_outcomes # <<>>) =>
          LET o == g_outcomes[Len(g_outcomes)] IN
          (IsStatus(o, {200}) /\ o.body.kind = "object" /\ o.body.has_data
              /\ o.body.data # <<>>) =>
                IF NumGood(o.body.data) = 0
                THEN g_result.kind = "RuntimeError"
                ELSE /\ g_result.kind = "ImageResponse"
                     /\ Len(g_result.images) = NumGood(o.body.data)

C6_Witness ==
    /\ GenDone
    /\ g_result.kind = "RuntimeError"
    /\ g_outcomes = <<Response(200, Obj(TRUE, <<[is_dict |-> TRUE, has_url |-> TRUE, url |-> ""],
                                                [is_dict |-> TRUE, has_url |-> FALSE, url |-> ""]>>,
                                        "absent"))>>

\* C7: an unknown aspect ratio or style never makes the call raise: a call
\* with a supported model, a count in [1,4] and a prompt of 3 or more
\* characters builds a payload whose size, aspect_ratio and style are values
\* of SIZE_MAPPING, ASPECT_RATIOS and STYLE_MAPPING; an unknown ratio gives
\* the landscape values and an unknown style gives realistic.
C7_FallbackToTables ==
    (/\ g_args # NoArgs
     /\ g_args.model \in {"flux", "turbo", "gptimage"}
     /\ g_args.num_images \in 1..4
     /\ g_args.prompt.body >= 3) =>
        /\ g_payload # NoPayload
        /\ g_result.kind # "ValueError"
        /\ g_payload.size \in Range(SIZE_MAPPING)
        /\ g_payload.aspect_ratio \in Range(ASPECT_RATIOS)
        /\ g_payload.style \in Range(STYLE_MAPPING)
        /\ g_args.aspect_ratio \notin DOMAIN ASPECT_RATIOS =>
              g_payload.size = "1344x768" /\ g_payload.aspect_ratio = "16:9"
        /\ g_args.style \notin DOMAIN STYLE_MAPPING => g_payload.style = "realistic"

C7_Witness ==
    /\ g_requests > 0
    /\ g_args.aspect_ratio = "IMAGE_ASPECT_RATIO_LANDSCAPE"
    /\ g_args.style = "vaporwave"
    /\ g_payload.style = "realistic"

(***************************************************************************)
(* Properties of the permission gate                                       *)
(***************************************************************************)
GateMessages == {"disabled", "not_authorized", "banned"}

\* what the gate of p has done so far, in terms of what its lookups returned
GateShape(p) ==
    /\ Len(h_msgs[p]) <= 1
    /\ h_msgs[p] # <<>> => h_pc[p] = "done" /\ h_msgs[p][1] \in GateMessages
    /\ h_saw[p].authorized # "unread" => h_saw[p].enabled = "yes"
    /\ h_saw[p].banned # "unread" => h_saw[p].authorized = "yes"
    /\ h_saw[p].enabled = "no" <=> h_msgs[p] = <<"disabled">>
    /\ h_saw[p].authorized = "no" <=> h_msgs[p] = <<"not_authorized">>
    /\ h_saw[p].banned = "yes" <=> h_msgs[p] = <<"banned">>

\* a lookup that did not raise returned what the storage held when it ran
GateLink(p) ==
    /\ (h_saw[p].enabled = "unread" /\ h_saw'[p].enabled # "unread"
            /\ "get_bot_status" \notin h_dberr'[p])
        => (h_saw'[p].enabled = "no" <=> db_status = "disabled")
    /\ (h_saw[p].authorized = "unread" /\ h_saw'[p].authorized # "unread"
            /\ "is_user_authorized" \notin h_dberr'[p])
        => (h_saw'[p].authorized = "no" <=> h_user[p] \notin db_users)
    /\ (h_saw[p].banned = "unread" /\ h_saw'[p].banned # "unread"
            /\ "is_user_banned" \notin h_dberr'[p])
        => (h_saw'[p].banned = "yes" <=> h_user[p] \in db_bans)

\* C8: the gate runs its checks in the order bot-disabled, not-authorized,
\* banned: a later check is evaluated only when every earlier one passed, at
\* most one denial message is sent and it is the one of the first failing
\* check, and each check that did not raise reflects the stored state, so
\* that a disabled bot yields the bot-disabled message whatever the user's
\* authorization and ban, and an unauthorized banned user of an enabled bot
\* gets the not-authorized message, never the banned one.
C8_GateOrder ==
    /\ [](\A p \in Procs : GateShape(p))
    /\ [][\A p \in Procs : GateLink(p)]_vars

\* a banned and unauthorized user of an enabled bot was told "not authorized"
C8_Witness ==
    /\ h_pc[1] = "done"
    /\ h_msgs[1] = <<"not_authorized">>
    /\ h_dberr[1] = {}
    /\ db_status = "enabled"
    /\ h_user[1] \notin db_users
    /\ h_user[1] \in db_bans
    /\ h_saw[1].banned = "unread"

(***************************************************************************)
(* Properties of the rate limiter                                          *)
(***************************************************************************)
\* the entries of user u with a timestamp in [t - w, t]
InWindow(u, t, w) ==
    {i \in DOMAIN db_rate :
        /\ db_rate[i].user_id = u
        /\ t - w <= db_rate[i].timestamp
        /\ db_rate[i].timestamp <= t}

FewerThanMax ==
    Cardinality(InWindow(rl_last.user_id, now, rl_last.limit_minutes)) < rl_last.max_requests

\* C9 as stated: check_rate_limit returns true exactly when fewer than
\* maxRequests entries of the user lie in [now - windowMinutes, now].
C9_TrueIffFewerThanMax ==
    rl_last.called => (rl_last.result <=> FewerThanMax)

\* C9 amended: when the count query succeeds, check_rate_limit returns true
\* exactly when fewer than maxRequests entries of the user lie in
\* [now - windowMinutes, now], the lower bound inclusive; when the count query
\* raises, it returns true whatever the entries are.
C9_TrueIffFewerThanMaxOrError ==
    rl_last.called => (rl_last.result <=> (~rl_last.ok \/ FewerThanMax))

\* the user has exactly max entries in the window and one of them lies exactly
\* at now - window: the check returns false
C9_Witness ==
    /\ rl_last.called /\ rl_last.ok /\ ~rl_last.result
    /\ rl_last.limit_minutes = RATE_LIMIT_MINUTES
    /\ rl_last.max_requests = MAX_REQUESTS_PER_PERIOD
    /\ Cardinality(InWindow(rl_last.user_id, now, RATE_LIMIT_MINUTES)) = MAX_REQUESTS_PER_PERIOD
    /\ \E i \in InWindow(rl_last.user_id, now, RATE_LIMIT_MINUTES) :
           db_rate[i].timestamp = now - RATE_LIMIT_MINUTES

\* p has passed the rate-limit stage and has not yet recorded its request
Admitted(p) == h_saw[p].count # -1 /\ h_pc[p] \in {"prompt", "record"}

OneSlotLeft(c) == c = MAX_REQUESTS_PER_PERIOD - 1

\* C10: two concurrent generation commands of one user are never both
\* admitted while a single quota slot remains: no two of them are past the
\* rate-limit check, each having counted one free slot, with that slot still
\* free in the storage.
C10_OneSlotAdmitsOne ==
    \A p, q \in Procs :
        (p # q /\ h_user[p] = h_user[q] /\ Admitted(p) /\ Admitted(q))
        => ~(/\ OneSlotLeft(h_saw[p].count)
             /\ OneSlotLeft(h_saw[q].count)
             /\ OneSlotLeft(CountDocuments(db_rate, h_user[p], now - RATE_LIMIT_MINUTES)))

(***************************************************************************)
(* Properties of the generation handlers                                   *)
(***************************************************************************)
Told(p, msg) == \E i \in DOMAIN h_msgs[p] : h_msgs[p][i] = msg

\* the HTTP requests p has caused: its test_connection and its generate_images
UpstreamRequests(p) == (IF h_probe[p] = "none" THEN 0 ELSE 1) + g_requests

\* p has not got as far as the placeholder, the upstream or the generator
NothingStarted(p) ==
    /\ ~Told(p, "placeholder")
    /\ UpstreamRequests(p) = 0
    /\ g_pc = "idle"
    /\ h_sent[p] = <<>>

\* p has ended and does nothing further
Halted(p) ==
    /\ h_pc'[p] = h_pc[p]
    /\ h_msgs'[p] = h_msgs[p]
    /\ h_saw'[p] = h_saw[p]

\* C11: a command rejected by the rate-limit check consumes no quota slot:
\* the step that rejects it leaves the rate-limit entries as they are, the
\* command takes no step after it (so it never calls record_request), and it
\* has sent no placeholder and caused no upstream request.
C11_RejectedConsumesNothing ==
    /\ [](\A p \in Procs : Told(p, "rate_limited") =>
            /\ h_pc[p] = "done"
            /\ h_msgs[p] = <<"rate_limited">>
            /\ NothingStarted(p))
    /\ [][\A p \in Procs :
            /\ (h_pc[p] = "rate_check" /\ h_pc'[p] = "done") => db_rate' = db_rate
            /\ Told(p, "rate_limited") => Halted(p)]_vars

\* a command was rejected with the quota used up
C11_Witness ==
    /\ h_msgs[1] = <<"rate_limited">>
    /\ h_saw[1].count = MAX_REQUESTS_PER_PERIOD
    /\ Len(db_rate) = MAX_REQUESTS_PER_PERIOD

\* the prompt p was given, as typed after the command word
TypedPrompt(p) == RestOfMessage(h_flags[p], h_text[p])

Entered(p) == h_pc[p] # "idle"

\* p is past its record_request
PastRecord(p) == h_pc[p] = "placeholder" \/ Told(p, "placeholder")

\* C12: a command whose prompt is empty or shorter than 3 characters after
\* trimming never gets past the recording of a quota entry and causes no HTTP
\* request to the upstream.
C12_ShortPromptStopsEarly ==
    \A p \in Procs :
        (Entered(p) /\ StrLen(Strip(TypedPrompt(p))) < MinPromptLen)
        => (~PastRecord(p) /\ UpstreamRequests(p) = 0)

\* the generate_images call of p has failed
GenerationCallFailed(p) ==
    /\ h_pc[p] \in {"generate", "failed", "done"}
    /\ g_pc = "done"
    /\ g_result.kind \in {"ValueError", "RuntimeError"}

\* C13: when the generate_images call of an invocation has failed, with a
\* validation, an upstream or a malformed-response error, no increment of the
\* user's generation counter is applied by that invocation.
C13_FailureLeavesCounter ==
    \A p \in Procs : GenerationCallFailed(p) => db_incs[h_user[p]] = 0

\* an upstream failure was reported to the user and the counter stands at 0
C13_Witness ==
    /\ h_pc[1] = "done"
    /\ g_result.kind = "RuntimeError"
    /\ g_requests = max_retries
    /\ Told(1, "generation_failed")
    /\ db_incs[1] = 0

FailureEntries(p) ==
    {i \in DOMAIN db_logs : db_logs[i].user_id = h_user[p] /\ ~db_logs[i].success}

\* C14: an invocation whose generate_images call failed has, when it ends
\* (the storage working), appended exactly one failure entry to the audit log,
\* and the entry carries the error text.
C14_OneFailureEntry ==
    \A p \in Procs :
        (GenerationCallFailed(p) /\ h_pc[p] = "done" /\ h_dberr[p] = {})
        => /\ Cardinality(FailureEntries(p)) = 1
           /\ \A i \in FailureEntries(p) : db_logs[i].error = g_result.msg

DeliveryFailed(p) == \E i \in DOMAIN h_sent[p] : h_sent[p][i] # "photo"

SuccessEntries(p) ==
    {i \in DOMAIN db_logs : db_logs[i].user_id = h_user[p] /\ db_logs[i].success}

\* the images the handler of p sets out to deliver: data[0] in main.py, every
\* entry of data in commands.py
ToDeliver(p) == IF h_variant[p] = "main" THEN 1 ELSE Len(g_result.images)

\* C15: when generation succeeded and the delivery of an image failed, the
\* invocation still attempts every remaining image, increments the counter
\* and appends the success entry (the storage working), and reports no
\* generation failure.
C15_DeliveryFailureIsLocal ==
    \A p \in Procs :
        (h_pc[p] = "done" /\ g_result.kind = "ImageResponse" /\ DeliveryFailed(p)
            /\ h_dberr[p] = {})
        => /\ Len(h_sent[p]) = ToDeliver(p)
           /\ db_incs[h_user[p]] = 1
           /\ Cardinality(SuccessEntries(p)) = 1
           /\ FailureEntries(p) = {}
           /\ ~Told(p, "generation_failed")
           /\ ~Told(p, "unexpected_error")

\* C16: the command "/flux -r16:9 -srealistic -n2 -seed42 a dragon" calls
\* generate_images with model flux, aspect ratio landscape, style realistic,
\* 2 images, seed 42 and the prompt "a dragon".
C16_FlagsParsed ==
    \A p \in Procs :
        (h_verb[p] = "flux" /\ h_flags[p] = ExampleFlags /\ h_text[p] = DragonText
            /\ h_pc[p] = "generate" /\ g_pc # "idle")
        => /\ g_args.model = "flux"
           /\ g_args.aspect_ratio = "landscape"
           /\ g_args.style = "realistic"
           /\ g_args.num_images = 2
           /\ g_args.seed = [v |-> 42]
           /\ g_args.prompt = DragonText

\* the outcome of the request that ended the generate_images call
LastOutcome == g_outcomes[Len(g_outcomes)]

\* C17: an HTTP 400 of the upstream ends generate_images with ValueError and
\* main.py tells the user "Invalid input"; a timeout that ends it gives
\* RuntimeError and "Generation failed"; neither is presented as the other.
C17_ErrorKindsKeptApart ==
    \A p \in Procs :
        (h_variant[p] = "main" /\ h_pc[p] = "done" /\ g_pc = "done" /\ g_outcomes # <<>>
            /\ g_result.kind # "ImageResponse")
        => /\ LastOutcome.status = 400 =>
                (g_result.kind = "ValueError" /\ Told(p, "invalid_input"))
           /\ LastOutcome.kind = "timeout" =>
                (g_result.kind = "RuntimeError" /\ Told(p, "generation_failed"))

\* the gate of p has read the bot status in this step
StatusRead(p) == h_pc[p] = "gate_status" /\ h_pc'[p] # "gate_status"

StoppedAtGate(p) ==
    /\ h_pc[p] = "done"
    /\ h_msgs[p] = <<"disabled">>
    /\ NothingStarted(p)

RequestTimeout == 90

RECURSIVE SumSeq(_)
SumSeq(q) == IF q = <<>> THEN 0 ELSE Head(q) + SumSeq(Tail(q))

\* the seconds the call has spent at least: its sleeps, and the full timeout
\* for each request that timed out
TimeSpent ==
    SumSeq(g_waits)
        + RequestTimeout * Cardinality({i \in DOMAIN g_outcomes : g_outcomes[i].kind = "timeout"})

\* C19: a generate_images call never spends more than about 150 seconds,
\* request timeouts and sleeps over all attempts taken together.
C19_TotalTimeBounded == GenDone => TimeSpent <= 150

\* C20: every generation command is audit-logged as its first stage: once the
\* command is past that stage, the log call has been made, whatever became of
\* it.
C20_AuditLoggedFirst ==
    \A p \in Procs : (Entered(p) /\ h_pc[p] # "audit") => Len(h_audit[p]) >= 1

\* a 200 response that the test of line 161 refuses, or whose body json()
\* cannot parse
UnusableOk(o) == IsStatus(o, {200}) /\ ~UsableResponse(o.body)

ValidationPassed == g_args # NoArgs /\ ValidationError(g_args) = ""

\* the messages of the failures raised inside the retry loop
LoopFailures ==
    {"Request timed out after maximum retries",
     "Failed to connect to image generation service",
     "API returned empty response",
     "HTTP error",
     "Unexpected error",
     "Failed to generate image after maximum retries"}

C22_RequestsBounded ==
    /\ g_requests = Len(g_outcomes)
    /\ g_requests <= max_retries
    /\ g_pc = "retry" => g_requests < max_retries
    /\ (GenDone /\ ValidationPassed) => g_requests >= 1
    /\ (GenDone /\ g_requests = max_retries
            /\ ~(IsStatus(LastOutcome, {200}) /\ UsableResponse(LastOutcome.body))) =>
          /\ g_result.kind = "RuntimeError"
          /\ g_result.msg \in LoopFailures

\* C22: whatever the upstream answers, one generate_images call ends; when
\* validation passed it has then issued at least 1 and at most 3 requests, and
\* when the third request gave no usable response either, it ends with the
\* RuntimeError raised in the retry loop and returns nothing.
C22_Terminates == []C22_RequestsBounded /\ <>GenDone

C22_Witness ==
    /\ GenDone
    /\ g_outcomes = <<ConnectionError, Response(200, Falsy), Response(200, Falsy)>>
    /\ g_result.msg = "API returned empty response"

\* C23: a 200 response with an empty body, a body that is no JSON, or a body
\* without a non-empty "data" is followed by another attempt unless it
\* answered the third request, and a call that got nothing but such responses
\* fails only after 3 requests.
C23_UnusableOkRetried ==
    /\ \A i \in DOMAIN g_outcomes :
          (UnusableOk(g_outcomes[i]) /\ i < max_retries) =>
              (i < Len(g_outcomes) \/ g_pc = "retry")
    /\ (GenDone /\ g_outcomes # <<>> /\ AllOutcomes(UnusableOk)) =>
          /\ g_requests = max_retries
          /\ g_result.kind = "RuntimeError"

C23_Witness ==
    /\ GenDone
    /\ g_outcomes = <<Response(200, NotJson), Response(200, Falsy),
                      Response(200, Obj(FALSE, <<>>, "absent"))>>
    /\ g_result.kind = "RuntimeError"

\* C24: nothing is slept before the first request; the sleep before request
\* k (k = 1, 2, counted from 0) is at least 2^k, at most 2^k + 2, and at most
\* the cap, which lies between 10 and 15.
C24_BackoffBounds ==
    /\ BackoffCap \in 10..15
    /\ \A i \in DOMAIN g_waits :
          IF i = 1 THEN g_waits[i] = 0
          ELSE /\ g_waits[i] >= Pow2(i - 1)
               /\ g_waits[i] <= Pow2(i - 1) + 2
               /\ g_waits[i] <= BackoffCap

C24_Witness == GenDone /\ g_waits = <<0, 3, 4>>

\* C25: a generate_images call that fails fails with ValueError or with
\* RuntimeError, an exception of another class raised by the transport or
\* while the response is processed included.
C25_OnlyDeclaredErrors ==
    GenDone => g_result.kind \in {"ImageResponse", "ValueError", "RuntimeError"}

\* the TypeError of a data entry that is no object, raised as RuntimeError
C25_Witness ==
    /\ GenDone
    /\ g_outcomes # <<>>
    /\ IsStatus(LastOutcome, {200})
    /\ \E i \in DOMAIN LastOutcome.body.data : ~LastOutcome.body.data[i].is_dict
    /\ g_result.kind = "RuntimeError"
    /\ g_result.msg = "Failed to generate image"

\* C26: a prompt of more than 2000 characters after trimming is cut to its
\* first 2000 characters and the call goes on to the request, so the prompt of
\* every payload has between 3 and 2000 characters.
C26_LongPromptTruncated ==
    /\ g_payload # NoPayload =>
          /\ StrLen(g_payload.prompt) >= MinPromptLen
          /\ StrLen(g_payload.prompt) <= MaxPromptLen
    /\ (g_args # NoArgs /\ StrLen(Strip(g_args.prompt)) > MaxPromptLen) =>
          /\ g_result.kind = "ValueError" =>
                g_result.msg # "Prompt must be at least 3 characters long"
          /\ ValidationPassed
                => /\ g_payload # NoPayload
                   /\ g_payload.prompt = [lead |-> 0, body |-> MaxPromptLen, trail |-> 0]

C26_Witness ==
    /\ g_requests = 1
    /\ g_args.prompt = [lead |-> 1, body |-> MaxPromptLen + 1, trail |-> 0]
    /\ StrLen(g_payload.prompt) = MaxPromptLen

\* C27: the prompt is looked at before the rate limit: a command without a
\* prompt that got through the permission gate ends with the usage message,
\* its user being over the rate limit or not, and only a command with a prompt
\* is ever told that the rate limit is reached.
C27_PromptBeforeRateLimit ==
    \A p \in Procs :
        /\ (h_pc[p] = "done" /\ TypedPrompt(p).body = 0 /\ h_saw[p].banned = "no")
              => h_msgs[p] = <<"no_prompt">>
        /\ Told(p, "rate_limited") => TypedPrompt(p).body > 0

\* the quota entries of user u with a timestamp in [t, t + RATE_LIMIT_MINUTES]
EntriesInWindow(u, t) ==
    {i \in DOMAIN db_rate :
        /\ db_rate[i].user_id = u
        /\ db_rate[i].timestamp >= t
        /\ db_rate[i].timestamp <= t + RATE_LIMIT_MINUTES}

LastTime == CHOOSE t \in TimePoints : \A x \in TimePoints : x <= t

\* C30: when one user's generation commands run one after the other and the
\* storage works, no window of RATE_LIMIT_MINUTES minutes holds more than
\* MAX_REQUESTS_PER_PERIOD quota entries of that user.
C30_WindowNeverOverfull ==
    \A t \in 0..LastTime : Cardinality(EntriesInWindow(1, t)) <= MAX_REQUESTS_PER_PERIOD

\* a third command was admitted once the window had room again
C30_Witness ==
    /\ Len(db_rate) = MAX_REQUESTS_PER_PERIOD + 1
    /\ \E t \in 0..LastTime : Cardinality(EntriesInWindow(1, t)) = MAX_REQUESTS_PER_PERIOD
    /\ h_pc[1] = "done"
    /\ Told(1, "placeholder")

(***************************************************************************)
(* Properties of the admin handlers and of the channel logger              *)
(***************************************************************************)
\* C21: an admin command or panel callback makes a writing storage call or
\* sends a broadcast only when its caller has a document in the admins
\* collection and the lookup of it succeeded; a caller whose lookup raised is
\* denied, and a call that was denied leaves the collections as they were.
C21_AdminOnly ==
    /\ [](/\ a_last.wrote # {} => (a_last.caller \in db_admins /\ a_last.lookup_ok)
          /\ (a_last # NoAdminCall /\ ~a_last.lookup_ok) => a_last.reply = "denied"
          /\ (a_last # NoAdminCall /\ a_last.caller \notin db_admins)
                => a_last.reply = "denied")
    /\ [][(db_users' # db_users \/ db_bans' # db_bans \/ db_status' # db_status)
            => (a_last'.caller \in db_admins /\ a_last'.lookup_ok
                    /\ a_last'.wrote # {})]_vars

\* an admin was denied because the lookup raised, and nothing was written
C21_Witness ==
    /\ a_last.cmd = "ban_user"
    /\ a_last.caller \in db_admins
    /\ ~a_last.lookup_ok
    /\ a_last.reply = "denied"
    /\ db_bans = {}
    /\ db_users = {2}

\* C28: the queue of failed log messages never holds more than 100 entries,
\* whatever log attempts and retries came before.
C28_QueueBounded == Len(lq) <= MaxFailedMessages

\* a store cut the queue to 50 entries while the retry task was walking
\* through it
C28_Witness ==
    /\ Len(lq) = KeepFailedMessages
    /\ lr_snap # <<>>
    /\ lr_pos < 1

\* C29: an entry of the queue is retried at most 3 times and then dropped,
\* and a step of the retry task never leaves the queue longer than it found
\* it.
C29_RetryDrains ==
    /\ [](\A i \in DOMAIN lq : lq[i].retry_count <= MaxMessageRetries)
    /\ [][(lr_snap # <<>> /\ lr_snap' # lr_snap) => Len(lq') <= Len(lq)]_vars

(***************************************************************************)
(* Further properties of the storage, the gate and the handlers            *)
(***************************************************************************)
\* C31: the purge of record_request takes away no entry that a later
\* check_rate_limit would count: whatever window is configured, a check made
\* at the time of the purge or later, for any user, gives the same answer on
\* the purged collection as on the collection with the new entry only
\* inserted.
C31_PurgeKeepsCounted ==
    [][\A u \in Users :
          (db_rate' # db_rate
              /\ db_rate' = DeleteOlder(InsertOne(db_rate, u, now), now - PurgeMinutes))
          => \A v \in Users, w \in ConfiguredWindows, m \in Limits,
                t \in {x \in HousekeepingTimes : x >= now} :
                CheckRateLimit(db_rate', v, t, w, m, TRUE)
                    = CheckRateLimit(InsertOne(db_rate, u, now), v, t, w, m, TRUE)]_vars

\* C32: a user with no record in the authorized-users collection is never
\* admitted by the permission gate, the case where the authorization lookup
\* raises included: the authorization check of such a user ends the gate with
\* the not-authorized reply, and the gate returns True only from its ban
\* check, after an authorization check that answered yes.
C32_NoRecordNeverAdmitted ==
    [][\A p \in Procs :
          /\ (h_pc[p] = "gate_auth" /\ h_pc'[p] # "gate_auth" /\ h_user[p] \notin db_users)
              => /\ h_pc'[p] = "done"
                 /\ h_msgs'[p] = Append(h_msgs[p], "not_authorized")
          /\ (h_pc'[p] # h_pc[p] /\ h_pc'[p] = AfterGate(h_variant[p]))
              => /\ h_pc[p] = "gate_ban"
                 /\ h_saw[p].authorized = "yes"]_vars

\* the lookup of a user without a record raised, and the user was refused
C32_Witness ==
    /\ h_pc[1] = "done"
    /\ h_msgs[1] = <<"not_authorized">>
    /\ "is_user_authorized" \in h_dberr[1]
    /\ h_user[1] \notin db_users

\* C33: a user with a ban record in storage is never admitted by the
\* permission gate, the case where the ban lookup raises included: the ban
\* check of such a user ends the gate with the banned reply.
C33_BannedNeverAdmitted ==
    [][\A p \in Procs :
          (h_pc[p] = "gate_ban" /\ h_pc'[p] # "gate_ban" /\ h_user[p] \in db_bans)
              => /\ h_pc'[p] = "done"
                 /\ h_msgs'[p] = Append(h_msgs[p], "banned")]_vars

\* C34: every generate_images call of a handler passes a model of
\* AVAILABLE_MODELS and a num_images between 1 and 4, whatever DEFAULT_MODEL
\* is configured, its default included: no call of an admitted command fails
\* the validation of the model or of the count.
C34_CallsPassValidation ==
    \A p \in Procs :
        (h_pc[p] = "generate" /\ g_pc # "idle")
            => /\ g_args.model \in AVAILABLE_MODELS
               /\ g_args.num_images \in MinImages..MaxImages
               /\ (g_pc = "done" /\ g_result.kind = "ValueError")
                      => g_result.msg \notin {"Model not supported",
                                              "Number of images must be between 1 and 4"}

\* C35: a quota entry recorded by a handler is followed, in the same
\* invocation, by a call of generate_images: once record_request has inserted
\* the entry, the handler leaves the stages between the insert and the call
\* only by going on towards the call, never by ending.
C35_RecordedThenGenerated ==
    [][\A p \in Procs :
          (/\ h_pc[p] \in {"placeholder", "probe"}
           /\ \E i \in DOMAIN db_rate : db_rate[i].user_id = h_user[p]
           /\ h_pc'[p] # h_pc[p])
              => h_pc'[p] \in {"probe", "generate"}]_vars

\* how often `what` was done with the placeholder of p
Times(p, what) ==
    Cardinality({i \in DOMAIN h_placeholder[p] : h_placeholder[p][i] = what})

\* C36: main._handle_generation never edits its placeholder after deleting
\* it, so that no edit is refused and no error leaves the handler; an
\* invocation that sent the placeholder ends with it either deleted or
\* replaced once by a final error text.
C36_PlaceholderEndsOnce ==
    \A p \in Procs :
        h_variant[p] = "main"
            => /\ Times(p, "edit_refused") = 0
               /\ (h_pc[p] = "done" /\ h_placeholder[p] # <<>>)
                      => Times(p, "deleted") + Times(p, "edited") = 1

\* C37: the total_generations counter of every user equals the number of
\* success entries of that user in the generation log.
C37_CounterEqualsSuccessEntries ==
    \A u \in Users :
        db_incs[u] = Cardinality({i \in DOMAIN db_logs :
                                     db_logs[i].user_id = u /\ db_logs[i].success})

\* C38: add_authorized_user leaves the document of a user who has one as it
\* is: an initialize, which calls it for every configured admin, changes
\* neither total_generations nor authorized_at nor added_by of any document
\* that exists, and removes none.
C38_AddExistingUserNoChange ==
    [][a_last'.cmd = "initialize"
          => \A u \in db_users :
                /\ u \in db_users'
                /\ db_incs'[u] = db_incs[u]
                /\ db_meta'[u] = db_meta[u]]_vars

\* initialize has just run over the document of an admin added earlier, by
\* an admin command, who has generations counted
C38_Witness ==
    /\ a_last.cmd = "initialize"
    /\ \E a \in AdminIds :
          /\ a \in db_users
          /\ db_incs[a] > 0
          /\ db_meta[a].authorized_at < now
          /\ db_meta[a].added_by = a

\* the bot_status command with the argument that enables
EnableCommand ==
    \E caller \in Users, ok, write_ok \in BOOLEAN : bot_status(caller, ok, "enabled", write_ok)

\* C39: the bot cannot be locked in the disabled state: while the status is
\* disabled, the enable command and the toggle button of an admin are accepted
\* whatever the status, and when one of them has succeeded the status is
\* enabled, so that the gate admits authorized, non-banned users again.
C39_EnableUnlocks ==
    [][(/\ db_status = "disabled"
        /\ a_last'.reply = "status_changed"
        /\ (a_last'.cmd = "button_callback" \/ EnableCommand))
          => /\ a_last'.caller \in db_admins
             /\ db_status' = "enabled"
             /\ GetBotStatus(TRUE)']_vars

====
